---- MODULE Spec2Model ----
(***************************************************************************)
(* Model of LegacyIndyRegistry                                             *)
(* (aries_cloudagent/anoncreds/default/legacy_indy/registry.py):           *)
(* the revocation status list registration, the ledger/wallet             *)
(* reconciliation (fix_ledger_entry), the submit step of the               *)
(* registration operations under cancellation of the caller, the           *)
(* registration and resolution of schemas, credential definitions and      *)
(* revocation registry definitions, and the identifier derivation.         *)
(*                                                                         *)
(* The ledger (BaseLedger), the wallet records (IssuerCredRevRecord) and   *)
(* generate_ledger_rrrecovery_txn are collaborators whose code is not part *)
(* of registry.py; they are modelled from the specification's description. *)
(***************************************************************************)
EXTENDS Integers, Sequences, FiniteSets, TLC

\* ------------------------------------------------------------------ bounds
\* credential revocation indices of the one revocation registry modelled
MaxIdx == 3
\* distinct accumulator values
MaxAccum == 2
\* calls of the registry made one after the other in one behaviour
MaxCalls == 2
\* attempts (first call and retries) of one registration under cancellation
MaxAttempts == 2

Indices == 1..MaxIdx
Accums == 1..MaxAccum
\* rev_status_list.current_accumulator when it is None / empty (falsy)
NoAccum == 0

VARIABLES
    \* ---- ledger and wallet (collaborators)
    ledgerRevoked,      \* revoked-index set of the registry on the ledger
    ledgerAccum,        \* current accumulator of the registry on the ledger
    ledgerSeqNo,        \* sequence number of the last transaction written
    walletRecs,         \* IssuerCredRevRecord state per cred_rev_id
    \* ---- the running call (register_revocation_status_list / fix_ledger_entry)
    pc,                 \* position in the running call
    op,                 \* operation the caller invoked
    calls,              \* calls started so far
    apply_ledger_update,\* argument of fix_ledger_entry
    current_accumulator,\* rev_status_list.current_accumulator
    ledger,             \* local variable ledger: "unset", "none" or "bound"
    err,                \* roll_up of the caught LedgerTransactionError
    rev_reg_delta,      \* local of fix_ledger_entry
    revoked_ids,        \* local of fix_ledger_entry (list)
    rec_count,          \* local of fix_ledger_entry
    accum_count,        \* local of fix_ledger_entry
    recovery_txn,       \* local of fix_ledger_entry
    applied_txn,        \* local of fix_ledger_entry
    rev_entry_res,      \* local of register_revocation_status_list
    ret,                \* what the call returned or raised
    openSessions,       \* ledger sessions entered (async with ledger) and not left
    sent,               \* ledger writes submitted by the running call, in order
    fixCalls,           \* invocations of fix_ledger_entry by the running call
    pre,                \* ledger state when the running call started
    \* ---- the submit step of a registration under cancellation
    kind,               \* which registration operation is exercised
    callState,          \* per attempt: state of the calling coroutine
    writeState,         \* per attempt: state of the ledger write coroutine
    writeResult,        \* per attempt: outcome of the ledger write
    session,            \* per attempt: is the async-with ledger session entered
    objLog,             \* ledger transactions written by the attempts, in order
    \* ---- schema / credential definition / registry definition operations
    chain,              \* the ledger: the transactions it took, in order
    credDefInWallet,    \* identifiers of the credential definitions in the wallet
    tails_base_url,     \* profile.settings["tails_server_base_url"]
    reg,                \* the running registrar / resolver call: position, arguments, locals
    resolved,           \* the GetSchemaResult the caller got from its last get_schema
    kept,               \* the last resolution the caller kept: operation, identifier, result
    \* ---- reconciliation across calls and concurrent reconciliations
    healed,             \* a fix_ledger_entry with apply has returned and nothing was revoked since
    fixer,              \* per concurrent fix_ledger_entry call: position and locals
    submitted,          \* corrective writes of the concurrent calls, with the ledger they met
    schemas,            \* make_schema_id: the two schemas it is applied to
    schema_ids          \* make_schema_id: the two identifiers it returned

reconVars == <<ledgerRevoked, ledgerAccum, ledgerSeqNo, walletRecs, pc, op, calls,
               apply_ledger_update, current_accumulator, ledger, err,
               rev_reg_delta, revoked_ids, rec_count, accum_count, recovery_txn,
               applied_txn, rev_entry_res, ret, openSessions, sent, fixCalls, pre>>

ledgerVars == <<ledgerRevoked, ledgerAccum, ledgerSeqNo>>

argVars == <<op, calls, apply_ledger_update, current_accumulator, pre>>

cancelVars == <<kind, callState, writeState, writeResult, session, objLog>>

regVars == <<chain, credDefInWallet, tails_base_url, reg, resolved>>

idVars == <<schemas, schema_ids>>

concVars == <<healed, fixer, submitted>>

resVars == <<kept, concVars>>

vars == <<reconVars, cancelVars, regVars, idVars, resVars>>

\* ------------------------------------------------------------ value shapes
\* {} : the empty dict recovery_txn / applied_txn start as (lines 512-513)
EmptyTxn == [empty |-> TRUE, revoked |-> {}, accum |-> NoAccum, seqNo |-> 0]

NoDelta == [revoked |-> {}, accum |-> NoAccum, read |-> FALSE, has_revoked |-> TRUE]

NoRet == [kind |-> "pending", what |-> "", seqNo |-> 0,
          delta |-> NoDelta, recovery |-> EmptyTxn, applied |-> EmptyTxn]

NoErr == <<>>

\* IssuerCredRevRecord.STATE_ISSUED / STATE_REVOKED
STATE_ISSUED == "issued"
STATE_REVOKED == "revoked"
RecStates == {STATE_ISSUED, STATE_REVOKED}

\* err.roll_up: the error text as the list of its words; the ledger's rejection
\* reason is one word of it
RollUps == { <<"Ledger rejected transaction request", "InvalidClientRequest">>,
             <<"Ledger rejected transaction request", "InvalidClientTaaAcceptanceError">>,
             <<"Ledger rejected transaction request", "UnauthorizedClientRequest">> }

\* `word in roll_up` (substring test, at the granularity of words)
In(word, roll_up) == \E k \in 1..Len(roll_up) : roll_up[k] = word

\* ---------------------------------------------------------- cred_rev_id text
\* IssuerCredRevRecord.cred_rev_id is a decimal string; the delta holds integers
Digit == <<"0", "1", "2", "3", "4", "5", "6", "7", "8", "9">>

RECURSIVE str(_)
str(n) == IF n < 10 THEN <<Digit[n + 1]>> ELSE Append(str(n \div 10), Digit[(n % 10) + 1])

DigitValue(c) == (CHOOSE k \in 1..10 : Digit[k] = c) - 1

RECURSIVE int(_)
int(s) == IF Len(s) = 0 THEN 0
          ELSE 10 * int(SubSeq(s, 1, Len(s) - 1)) + DigitValue(s[Len(s)])

\* IssuerCredRevRecord.query_by_ids(session, rev_reg_id=...): the registry's records
query_by_ids == [i \in Indices |-> [cred_rev_id |-> str(i), state |-> walletRecs[i]]]

SeqToSet(s) == {s[k] : k \in 1..Len(s)}

WalletRevoked == {i \in Indices : walletRecs[i] = STATE_REVOKED}

\* ------------------------------------------------- collaborators (ledger)
\* an accumulator value the ledger has not as its current one
NewAccum(a) == (a % MaxAccum) + 1

\* generate_ledger_rrrecovery_txn(genesis_transactions, rev_reg_id, revoked_ids):
\* reads the registry from the ledger named by the genesis transactions and builds
\* the entry that publishes the indices of revoked_ids the ledger does not hold
generate_ledger_rrrecovery_txn(ids, onLedger, accum) ==
    [empty |-> FALSE, revoked |-> SeqToSet(ids) \ onLedger,
     accum |-> NewAccum(accum), seqNo |-> 0]

\* ledger.get_revoc_reg_delta(rev_reg_id): the registry's delta on the ledger
get_revoc_reg_delta ==
    [revoked |-> ledgerRevoked, accum |-> ledgerAccum, read |-> TRUE, has_revoked |-> TRUE]

\* the delta of a registry with nothing revoked, as a ledger that leaves out
\* empty lists returns it: rev_reg_delta["value"] has no key "revoked"
get_revoc_reg_delta_sparse == [get_revoc_reg_delta EXCEPT !.has_revoked = FALSE]

\* line 523: rev_reg_delta["value"]["revoked"] is evaluated for a revoked record
\* and raises KeyError when the key is absent
ScanRaises(recs, delta) ==
    /\ ~delta.has_revoked
    /\ \E k \in 1..Len(recs) : recs[k].state = STATE_REVOKED

\* what a submitted write looks like to the ledger
Submission(by, type, txn) ==
    [by |-> by, type |-> type, revoked |-> txn.revoked, accum |-> txn.accum]

\* -------------------------------------------- fix_ledger_entry, pure parts
\* mutant: every record counts as revoked, whatever its state
IsRevokedRecAny(rec) == rec.state \in RecStates

\* line 521: rec.state == IssuerCredRevRecord.STATE_REVOKED
IsRevokedRec(rec) == rec.state = STATE_REVOKED

\* mutant: every revoked record counts as missed, whatever the delta holds
IsMissedAlways(rec, delta) == rec.cred_rev_id # <<>>

\* line 523: int(rec.cred_rev_id) not in rev_reg_delta["value"]["revoked"]
IsMissed(rec, delta) == int(rec.cred_rev_id) \notin delta.revoked

\* mutant: the loop collects only the indices the delta does not hold
RECURSIVE ScanRecsMissedOnly(_, _, _, _, _)
ScanRecsMissedOnly(recs, delta, k, ids, count) ==
    IF k > Len(recs) THEN [revoked_ids |-> ids, rec_count |-> count]
    ELSE IF recs[k].state = STATE_REVOKED /\ int(recs[k].cred_rev_id) \notin delta.revoked
         THEN ScanRecsMissedOnly(recs, delta, k + 1,
                                 Append(ids, int(recs[k].cred_rev_id)), count + 1)
         ELSE ScanRecsMissedOnly(recs, delta, k + 1, ids, count)

\* lines 519-525: the loop over recs, from record k on
RECURSIVE ScanRecs(_, _, _, _, _)
ScanRecs(recs, delta, k, ids, count) ==
    IF k > Len(recs) THEN [revoked_ids |-> ids, rec_count |-> count]
    ELSE IF IsRevokedRec(recs[k])
         THEN ScanRecs(recs, delta, k + 1, Append(ids, int(recs[k].cred_rev_id)),
                       IF IsMissed(recs[k], delta) THEN count + 1 ELSE count)
         ELSE ScanRecs(recs, delta, k + 1, ids, count)

\* mutant: if rec_count >= 0
HasDiscrepancyAlways(count) == count >= 0

\* line 537: if rec_count > 0
HasDiscrepancy(count) == count > 0

\* lines 538-543: the accumulator comparison
AccumMismatch(acc, delta) == (acc # NoAccum /\ delta.read) /\ acc # delta.accum

\* mutant: the corrective write is made whatever apply_ledger_update is
ShouldApplyAlways(apply) == apply \in BOOLEAN

\* line 556: if apply_ledger_update
ShouldApply(apply) == apply

\* line 566: the entry type of the corrective write
CorrectiveType == "CL_ACCUM"

\* ------------------------------ register_revocation_status_list, pure parts
\* rev_reg_def.type of the registry modelled
RevRegDefType == "CL_ACCUM"

\* mutant: the entry also carries the locally revoked indices
rev_reg_entryWithRevoked(acc) ==
    [empty |-> FALSE, revoked |-> WalletRevoked, accum |-> acc, seqNo |-> 0]

\* line 437: rev_reg_entry = {"value": {"accum": rev_status_list.current_accumulator}}
rev_reg_entry(acc) == [empty |-> FALSE, revoked |-> {}, accum |-> acc, seqNo |-> 0]

\* mutant: "InvalidClient" in err.roll_up
IsRepairableAnyInvalidClient(roll_up) ==
    In("InvalidClientRequest", roll_up) \/ In("InvalidClientTaaAcceptanceError", roll_up)

\* mutant: every rejection but the TAA one is repaired
IsRepairableUnlessTaa(roll_up) == ~In("InvalidClientTaaAcceptanceError", roll_up)

\* line 449: "InvalidClientRequest" in err.roll_up
IsRepairable(roll_up) == In("InvalidClientRequest", roll_up)

\* line 465: "InvalidClientTaaAcceptanceError" in err.roll_up
IsTaaRejection(roll_up) == In("InvalidClientTaaAcceptanceError", roll_up)

\* line 489: rev_entry_res["result"]["txnMetadata"]["seqNo"] can be read
HasTxnMetadata(res) == ~res.empty

\* mutant: the write is tried again after the repair
AfterRepairRetry == "status_send"

\* where register_revocation_status_list continues after the repair (lines 463-464,
\* then the return at 481): no loop back to the write
AfterRepair == "status_return"

\* ------------------------------------------------------------------------
\* Strings of the registrar: a string is the sequence of its characters
\* ------------------------------------------------------------------------
\* Python None where a string (or an object) may stand
NoneVal == <<"None">>

\* mutant: s is not None
TruthyNotNone(s) == s # NoneVal

\* truth value of an optional string: None and "" are falsy
Truthy(s) == s # NoneVal /\ s # <<>>

\* line 64
DEFAULT_CRED_DEF_TAG == <<"d", "e", "f", "a", "u", "l", "t">>
\* line 65
DEFAULT_SIGNATURE_TYPE == <<"C", "L">>

Letters == {"a", "b", "c", "d", "e", "f", "h", "i", "l", "n", "s", "t", "u", "v", "x",
            "A", "C", "L", "M", "U"}
Digits == {Digit[k] : k \in 1..10}
\* urllib.parse.scheme_chars
SchemeChars == Letters \cup Digits \cup {"+", "-", "."}

\* s.rstrip(ch)
RECURSIVE rstrip(_, _)
rstrip(s, ch) == IF Len(s) > 0 /\ s[Len(s)] = ch
                 THEN rstrip(SubSeq(s, 1, Len(s) - 1), ch)
                 ELSE s

\* s.find(c) from position `from` on, 1-based; 0 when there is none
Find(s, cs, from) ==
    IF \E k \in from..Len(s) : s[k] \in cs
    THEN CHOOSE k \in from..Len(s) : s[k] \in cs /\ \A j \in from..(k - 1) : s[j] \notin cs
    ELSE 0

\* s.split(":")[0]
SplitFirst(s) == LET i == Find(s, {":"}, 1)
                 IN  IF i = 0 THEN s ELSE SubSeq(s, 1, i - 1)

\* urllib.parse.urlparse(url): scheme, netloc and path (the strings modelled hold
\* no '?', '#', ';' and no upper-case scheme)
urlparse(url) ==
    LET i == Find(url, {":"}, 1)
        hasScheme == /\ i > 1
                     /\ url[1] \in Letters
                     /\ \A k \in 1..(i - 1) : url[k] \in SchemeChars
        rest == IF hasScheme THEN SubSeq(url, i + 1, Len(url)) ELSE url
        hasNetloc == Len(rest) >= 2 /\ rest[1] = "/" /\ rest[2] = "/"
        delim == IF hasNetloc THEN Find(rest, {"/"}, 3) ELSE 0
        netloc == IF ~hasNetloc THEN <<>>
                  ELSE IF delim = 0 THEN SubSeq(rest, 3, Len(rest))
                  ELSE SubSeq(rest, 3, delim - 1)
        path == IF ~hasNetloc THEN rest
                ELSE IF delim = 0 THEN <<>>
                ELSE SubSeq(rest, delim, Len(rest))
    IN  [scheme |-> IF hasScheme THEN SubSeq(url, 1, i - 1) ELSE <<>>,
         netloc |-> netloc, path |-> path]

\* lines 359-362: _check_url raises RevocationError unless scheme, netloc and path
\* are all there
check_url_ok(url) ==
    LET parsed == urlparse(url)
    IN  parsed.scheme # <<>> /\ parsed.netloc # <<>> /\ parsed.path # <<>>

\* a dict is a function from its keys; {} is the function with no key
EmptyDict == [k \in {} |-> 0]

\* {**a, **b}: the entries of b override those of a
DictMerge(a, b) ==
    [k \in (DOMAIN a) \cup (DOMAIN b) |-> IF k \in DOMAIN b THEN b[k] ELSE a[k]]

\* ---------------------------------------------------------- Identifier Deriver
\* lines 83-86
make_schema_id(schema) ==
    schema.issuer_id \o <<":", "2", ":">> \o schema.name \o <<":">> \o schema.version

\* mutant: cred_def.type and cred_def.tag as they are
OrDefaultRaw(s, default) == s

\* lines 94-95: cred_def.type or DEFAULT_SIGNATURE_TYPE, cred_def.tag or DEFAULT_CRED_DEF_TAG
OrDefault(s, default) == IF Truthy(s) THEN s ELSE default

\* lines 97-102: schema.schema_metadata["seqNo"] raises KeyError when the key is absent
HasSeqNo(schema) == "seqNo" \in DOMAIN schema.schema_metadata

\* mutant: a schema without seqNo gets the sequence number 0
make_cred_def_idUnchecked(schema, cred_def) ==
    [raised |-> FALSE,
     id |-> cred_def.issuer_id \o <<":", "3", ":">>
            \o OrDefault(cred_def.type, DEFAULT_SIGNATURE_TYPE) \o <<":">>
            \o (IF HasSeqNo(schema) THEN str(schema.schema_metadata["seqNo"]) ELSE <<"0">>)
            \o <<":">> \o OrDefault(cred_def.tag, DEFAULT_CRED_DEF_TAG)]

\* lines 88-104: the identifier, or the AnonCredsRegistrationError of line 100
make_cred_def_id(schema, cred_def) ==
    IF HasSeqNo(schema)
    THEN [raised |-> FALSE,
          id |-> cred_def.issuer_id \o <<":", "3", ":">>
                 \o OrDefault(cred_def.type, DEFAULT_SIGNATURE_TYPE) \o <<":">>
                 \o str(schema.schema_metadata["seqNo"]) \o <<":">>
                 \o OrDefault(cred_def.tag, DEFAULT_CRED_DEF_TAG)]
    ELSE [raised |-> TRUE, id |-> <<>>]

\* lines 106-112
make_rev_reg_def_id(rev_reg_def) ==
    rev_reg_def.issuer_id \o <<":", "4", ":">> \o rev_reg_def.cred_def_id \o <<":">>
    \o rev_reg_def.type \o <<":">> \o rev_reg_def.tag

\* mutant: tails_base_url + f"/{rev_reg_def_id}"
tails_location_unstripped(base, rev_reg_def_id) == base \o <<"/">> \o rev_reg_def_id

\* lines 377-379: tails_base_url.rstrip("/") + f"/{rev_reg_def_id}"
tails_location_of(base, rev_reg_def_id) == rstrip(base, "/") \o <<"/">> \o rev_reg_def_id

\* ------------------------------------------------- registrar: value shapes
\* Python None where an object (a record, a dict) may stand
NoneObj == [none |-> TRUE]

\* options or {}   (line 339)
OrEmpty(options) == IF options = NoneObj THEN EmptyDict ELSE options

NoExc == [type |-> "none", message |-> "", obj |-> NoneObj]

\* the registrar's call frame: operation, arguments, locals, outcome, and the
\* trace of what the call has done so far
IdleReg ==
    [pc |-> "idle", op |-> "none", arg |-> NoneObj, schema |-> NoneObj,
     options |-> NoneObj, id |-> <<>>, wire |-> NoneObj, answer |-> "none",
     seq_no |-> 0, assigned |-> 0, existing |-> NoneObj, exc |-> NoExc,
     result |-> NoneObj, steps |-> <<>>]

\* the fix_ledger_entry calls that run concurrently
Fixers == {"f1", "f2"}

\* the frame of a concurrent fix_ledger_entry call that has not started
IdleFixer ==
    [pc |-> "idle", rev_reg_delta |-> NoDelta, revoked_ids |-> <<>>, rec_count |-> 0,
     recovery_txn |-> EmptyTxn, applied_txn |-> EmptyTxn, raised |-> ""]

InitConcIdle ==
    /\ healed = FALSE
    /\ fixer = [f \in Fixers |-> IdleFixer]
    /\ submitted = <<>>

\* the caller has kept no resolution
NoKept == [op |-> "none", id |-> <<>>, result |-> NoneObj, len |-> 0]

InitRegIdle ==
    /\ chain = <<>>
    /\ credDefInWallet = {}
    /\ tails_base_url = NoneVal
    /\ reg = IdleReg
    /\ resolved = NoneObj
    /\ kept = NoKept
    /\ InitConcIdle
    /\ schemas = <<>>
    /\ schema_ids = <<>>

\* ------------------------------------------------------------------- Init
TypeOK ==
    /\ ledgerRevoked \in SUBSET Indices
    /\ ledgerAccum \in Accums
    /\ ledgerSeqNo \in Nat
    /\ walletRecs \in [Indices -> RecStates]
    /\ calls \in 0..MaxCalls
    /\ apply_ledger_update \in BOOLEAN
    /\ current_accumulator \in Accums \cup {NoAccum}
    /\ ledger \in {"unset", "none", "bound"}
    /\ rec_count \in Nat
    /\ accum_count \in Nat
    /\ openSessions \in Nat
    /\ fixCalls \in Nat

ResetLocals ==
    /\ ledger' = "unset"
    /\ err' = NoErr
    /\ rev_reg_delta' = NoDelta
    /\ revoked_ids' = <<>>
    /\ rec_count' = 0
    /\ accum_count' = 0
    /\ recovery_txn' = EmptyTxn
    /\ applied_txn' = EmptyTxn
    /\ rev_entry_res' = EmptyTxn
    /\ ret' = NoRet
    /\ sent' = <<>>
    /\ fixCalls' = 0

InitCall ==
    /\ pc = "idle"
    /\ op = "none"
    /\ calls = 0
    /\ apply_ledger_update = FALSE
    /\ current_accumulator = NoAccum
    /\ ledger = "unset"
    /\ err = NoErr
    /\ rev_reg_delta = NoDelta
    /\ revoked_ids = <<>>
    /\ rec_count = 0
    /\ accum_count = 0
    /\ recovery_txn = EmptyTxn
    /\ applied_txn = EmptyTxn
    /\ rev_entry_res = EmptyTxn
    /\ ret = NoRet
    /\ openSessions = 0
    /\ sent = <<>>
    /\ fixCalls = 0
    /\ pre = [revoked |-> ledgerRevoked, accum |-> ledgerAccum, seqNo |-> ledgerSeqNo]

InitCancelIdle ==
    /\ kind = "none"
    /\ callState = [a \in 1..MaxAttempts |-> "none"]
    /\ writeState = [a \in 1..MaxAttempts |-> "none"]
    /\ writeResult = [a \in 1..MaxAttempts |-> "none"]
    /\ session = [a \in 1..MaxAttempts |-> FALSE]
    /\ objLog = <<>>

\* any ledger state and any wallet state of the registry: the two stores are
\* written independently
Init ==
    /\ ledgerRevoked \in SUBSET Indices
    /\ ledgerAccum \in Accums
    /\ ledgerSeqNo = 0
    /\ walletRecs \in [Indices -> RecStates]
    /\ InitCall
    /\ InitCancelIdle
    /\ InitRegIdle

\* ------------------------------------------------------------ environment
\* the revocation workflow marks a credential revoked in the wallet
RevokeLocally(i) ==
    /\ pc = "idle"
    /\ walletRecs[i] = STATE_ISSUED
    /\ walletRecs' = [walletRecs EXCEPT ![i] = STATE_REVOKED]
    /\ UNCHANGED <<ledgerRevoked, ledgerAccum, ledgerSeqNo, pc, op, calls,
                   apply_ledger_update, current_accumulator, ledger, err,
                   rev_reg_delta, revoked_ids, rec_count, accum_count, recovery_txn,
                   applied_txn, rev_entry_res, ret, openSessions, sent, fixCalls, pre>>
    /\ healed' = FALSE
    /\ UNCHANGED <<kept, fixer, submitted>>
    /\ UNCHANGED cancelVars
    /\ UNCHANGED regVars
    /\ UNCHANGED idVars

StartCall(o, apply, acc, first) ==
    /\ pc = "idle"
    /\ calls < MaxCalls
    /\ calls' = calls + 1
    /\ op' = o
    /\ apply_ledger_update' = apply
    /\ current_accumulator' = acc
    /\ pc' = first
    /\ pre' = [revoked |-> ledgerRevoked, accum |-> ledgerAccum, seqNo |-> ledgerSeqNo]
    /\ ResetLocals
    /\ UNCHANGED <<ledgerRevoked, ledgerAccum, ledgerSeqNo, walletRecs, openSessions>>
    /\ UNCHANGED cancelVars
    /\ UNCHANGED regVars
    /\ UNCHANGED idVars
    /\ UNCHANGED resVars

\* a caller invokes register_revocation_status_list(profile, rev_reg_def, rev_status_list)
CallRegisterStatusList ==
    \E acc \in Accums \cup {NoAccum} :
        StartCall("register_revocation_status_list", FALSE, acc, "status_send")

\* a caller invokes fix_ledger_entry(profile, rev_status_list, apply, genesis)
CallFixLedgerEntry ==
    \E apply \in BOOLEAN, acc \in Accums \cup {NoAccum} :
        StartCall("fix_ledger_entry", apply, acc, "fix_inject")

\* the call ends by raising: every frame of it is left
Raise(what) ==
    /\ ret' = [NoRet EXCEPT !.kind = "raise", !.what = what]
    /\ pc' = "done"


\* ------------------------------------------ register_revocation_status_list
\* line 435: profile.inject(BaseLedger) with no ledger bound raises
StatusNoLedger ==
    /\ pc = "status_send"
    /\ ledger' = "none"
    /\ Raise("InjectionError")
    /\ UNCHANGED <<ledgerVars, walletRecs, argVars, err, rev_reg_delta, revoked_ids,
                   rec_count, accum_count, recovery_txn, applied_txn, rev_entry_res,
                   openSessions, sent, fixCalls>>
    /\ UNCHANGED cancelVars
    /\ UNCHANGED regVars
    /\ UNCHANGED idVars
    /\ UNCHANGED resVars

\* lines 435-447: the entry is written; the ledger accepts a well-formed entry
StatusSendOk ==
    /\ pc = "status_send"
    /\ current_accumulator \in Accums
    /\ ledger' = "bound"
    /\ sent' = Append(sent, Submission("register_revocation_status_list", RevRegDefType,
                                       rev_reg_entry(current_accumulator)))
    /\ ledgerAccum' = current_accumulator
    /\ ledgerSeqNo' = ledgerSeqNo + 1
    /\ rev_entry_res' = [rev_reg_entry(current_accumulator) EXCEPT !.seqNo = ledgerSeqNo + 1]
    /\ pc' = "status_return"
    /\ UNCHANGED <<ledgerRevoked, walletRecs, argVars, err, rev_reg_delta, revoked_ids,
                   rec_count, accum_count, recovery_txn, applied_txn, ret,
                   openSessions, fixCalls>>
    /\ UNCHANGED cancelVars
    /\ UNCHANGED regVars
    /\ UNCHANGED idVars
    /\ UNCHANGED resVars

\* lines 440-448: the ledger rejects the entry (LedgerTransactionError)
StatusSendRejected ==
    /\ pc = "status_send"
    /\ \E r \in RollUps : err' = r
    /\ ledger' = "bound"
    /\ sent' = Append(sent, Submission("register_revocation_status_list", RevRegDefType,
                                       rev_reg_entry(current_accumulator)))
    /\ pc' = "status_except"
    /\ UNCHANGED <<ledgerVars, walletRecs, argVars, rev_reg_delta, revoked_ids,
                   rec_count, accum_count, recovery_txn, applied_txn, rev_entry_res, ret,
                   openSessions, fixCalls>>
    /\ UNCHANGED cancelVars
    /\ UNCHANGED regVars
    /\ UNCHANGED idVars
    /\ UNCHANGED resVars

\* lines 440-447: the write fails with a LedgerError that is no
\* LedgerTransactionError; no except clause catches it
StatusSendLedgerError ==
    /\ pc = "status_send"
    /\ ledger' = "bound"
    /\ sent' = Append(sent, Submission("register_revocation_status_list", RevRegDefType,
                                       rev_reg_entry(current_accumulator)))
    /\ Raise("LedgerError")
    /\ UNCHANGED <<ledgerVars, walletRecs, argVars, err, rev_reg_delta, revoked_ids,
                   rec_count, accum_count, recovery_txn, applied_txn, rev_entry_res,
                   openSessions, fixCalls>>
    /\ UNCHANGED cancelVars
    /\ UNCHANGED regVars
    /\ UNCHANGED idVars
    /\ UNCHANGED resVars

\* lines 449-462: InvalidClientRequest: fix_ledger_entry(profile, rev_status_list, True, ...)
StatusRepair ==
    /\ pc = "status_except"
    /\ IsRepairable(err)
    /\ fixCalls' = fixCalls + 1
    /\ apply_ledger_update' = TRUE
    /\ pc' = "fix_inject"
    /\ UNCHANGED <<ledgerVars, walletRecs, op, calls, current_accumulator, pre, ledger,
                   err, rev_reg_delta, revoked_ids, rec_count, accum_count, recovery_txn,
                   applied_txn, rev_entry_res, ret, openSessions, sent>>
    /\ UNCHANGED cancelVars
    /\ UNCHANGED regVars
    /\ UNCHANGED idVars
    /\ UNCHANGED resVars

\* lines 465-473: InvalidClientTaaAcceptanceError
StatusTaa ==
    /\ pc = "status_except"
    /\ ~IsRepairable(err)
    /\ IsTaaRejection(err)
    /\ Raise("AnonCredsRegistrationError: Ledger update failed due to TAA Issue")
    /\ UNCHANGED <<ledgerVars, walletRecs, argVars, ledger, err, rev_reg_delta,
                   revoked_ids, rec_count, accum_count, recovery_txn, applied_txn,
                   rev_entry_res, openSessions, sent, fixCalls>>
    /\ UNCHANGED cancelVars
    /\ UNCHANGED regVars
    /\ UNCHANGED idVars
    /\ UNCHANGED resVars

\* lines 474-479: any other rejection
StatusUnknown ==
    /\ pc = "status_except"
    /\ ~IsRepairable(err)
    /\ ~IsTaaRejection(err)
    /\ Raise("AnonCredsRegistrationError: Ledger update failed due to unknown issue")
    /\ UNCHANGED <<ledgerVars, walletRecs, argVars, ledger, err, rev_reg_delta,
                   revoked_ids, rec_count, accum_count, recovery_txn, applied_txn,
                   rev_entry_res, openSessions, sent, fixCalls>>
    /\ UNCHANGED cancelVars
    /\ UNCHANGED regVars
    /\ UNCHANGED idVars
    /\ UNCHANGED resVars

\* lines 457-464: (_, _, res) = ...; rev_entry_res = {"result": res}
StatusAfterFix ==
    /\ pc = "status_after_fix"
    /\ rev_entry_res' = ret.applied
    /\ ret' = NoRet
    /\ pc' = AfterRepair
    /\ UNCHANGED <<ledgerVars, walletRecs, argVars, ledger, err, rev_reg_delta,
                   revoked_ids, rec_count, accum_count, recovery_txn, applied_txn,
                   openSessions, sent, fixCalls>>
    /\ UNCHANGED cancelVars
    /\ UNCHANGED regVars
    /\ UNCHANGED idVars
    /\ UNCHANGED resVars

\* lines 481-491: the result is built from rev_entry_res["result"]["txnMetadata"]["seqNo"]
StatusReturn ==
    /\ pc = "status_return"
    /\ IF HasTxnMetadata(rev_entry_res)
       THEN /\ ret' = [NoRet EXCEPT !.kind = "return", !.what = "STATE_FINISHED",
                                    !.seqNo = rev_entry_res.seqNo]
            /\ pc' = "done"
       ELSE Raise("KeyError")
    /\ UNCHANGED <<ledgerVars, walletRecs, argVars, ledger, err, rev_reg_delta,
                   revoked_ids, rec_count, accum_count, recovery_txn, applied_txn,
                   rev_entry_res, openSessions, sent, fixCalls>>
    /\ UNCHANGED cancelVars
    /\ UNCHANGED regVars
    /\ UNCHANGED idVars
    /\ UNCHANGED resVars

\* ---------------------------------------------------------- fix_ledger_entry
\* line 502: profile.inject(BaseLedger) with no ledger bound raises
FixNoLedger ==
    /\ pc = "fix_inject"
    /\ ledger' = "none"
    /\ Raise("InjectionError")
    /\ UNCHANGED <<ledgerVars, walletRecs, argVars, err, rev_reg_delta, revoked_ids,
                   rec_count, accum_count, recovery_txn, applied_txn, rev_entry_res,
                   openSessions, sent, fixCalls>>
    /\ UNCHANGED cancelVars
    /\ UNCHANGED regVars
    /\ UNCHANGED idVars
    /\ UNCHANGED resVars

\* lines 502-503: ledger = profile.inject(BaseLedger); async with ledger:
FixOpenDelta ==
    /\ pc = "fix_inject"
    /\ ledger' = "bound"
    /\ openSessions' = openSessions + 1
    /\ pc' = "fix_delta"
    /\ UNCHANGED <<ledgerVars, walletRecs, argVars, err, rev_reg_delta, revoked_ids,
                   rec_count, accum_count, recovery_txn, applied_txn, rev_entry_res,
                   ret, sent, fixCalls>>
    /\ UNCHANGED cancelVars
    /\ UNCHANGED regVars
    /\ UNCHANGED idVars
    /\ UNCHANGED resVars

\* lines 504-506: the delta is read, the session is left
FixReadDelta ==
    /\ pc = "fix_delta"
    /\ rev_reg_delta' = get_revoc_reg_delta
    /\ openSessions' = openSessions - 1
    /\ pc' = "fix_scan"
    /\ UNCHANGED <<ledgerVars, walletRecs, argVars, ledger, err, revoked_ids,
                   rec_count, accum_count, recovery_txn, applied_txn, rev_entry_res,
                   ret, sent, fixCalls>>
    /\ UNCHANGED cancelVars
    /\ UNCHANGED regVars
    /\ UNCHANGED idVars
    /\ UNCHANGED resVars

\* lines 504-506: the ledger holds no revoked index and returns the delta
\* without the key "revoked"; the session is left
FixReadDeltaSparse ==
    /\ pc = "fix_delta"
    /\ ledgerRevoked = {}
    /\ rev_reg_delta' = get_revoc_reg_delta_sparse
    /\ openSessions' = openSessions - 1
    /\ pc' = "fix_scan"
    /\ UNCHANGED <<ledgerVars, walletRecs, argVars, ledger, err, revoked_ids,
                   rec_count, accum_count, recovery_txn, applied_txn, rev_entry_res,
                   ret, sent, fixCalls>>
    /\ UNCHANGED cancelVars
    /\ UNCHANGED regVars
    /\ UNCHANGED idVars
    /\ UNCHANGED resVars

\* lines 503-506: the read fails; the session is left and the error propagates
FixReadDeltaError ==
    /\ pc = "fix_delta"
    /\ openSessions' = openSessions - 1
    /\ Raise("LedgerError")
    /\ UNCHANGED <<ledgerVars, walletRecs, argVars, ledger, err, rev_reg_delta,
                   revoked_ids, rec_count, accum_count, recovery_txn, applied_txn,
                   rev_entry_res, sent, fixCalls>>
    /\ UNCHANGED cancelVars
    /\ UNCHANGED regVars
    /\ UNCHANGED idVars
    /\ UNCHANGED resVars

\* mutant: the records found missing on the ledger are set back to issued
FixScanWalletResetting ==
    /\ pc = "fix_scan"
    /\ ~ScanRaises(query_by_ids, rev_reg_delta)
    /\ LET r == ScanRecs(query_by_ids, rev_reg_delta, 1, <<>>, 0)
       IN  /\ revoked_ids' = r.revoked_ids
           /\ rec_count' = r.rec_count
    /\ walletRecs' = [i \in Indices |->
                         IF walletRecs[i] = STATE_REVOKED /\ i \notin rev_reg_delta.revoked
                         THEN STATE_ISSUED ELSE walletRecs[i]]
    /\ accum_count' = 0
    /\ recovery_txn' = EmptyTxn
    /\ applied_txn' = EmptyTxn
    /\ pc' = "fix_check"
    /\ UNCHANGED <<ledgerVars, argVars, ledger, err, rev_reg_delta,
                   rev_entry_res, ret, openSessions, sent, fixCalls>>
    /\ UNCHANGED cancelVars
    /\ UNCHANGED regVars
    /\ UNCHANGED idVars
    /\ UNCHANGED resVars

\* lines 509-534: the wallet's records are read and scanned
FixScanWallet ==
    /\ pc = "fix_scan"
    /\ ~ScanRaises(query_by_ids, rev_reg_delta)
    /\ LET r == ScanRecs(query_by_ids, rev_reg_delta, 1, <<>>, 0)
       IN  /\ revoked_ids' = r.revoked_ids
           /\ rec_count' = r.rec_count
    /\ accum_count' = 0
    /\ recovery_txn' = EmptyTxn
    /\ applied_txn' = EmptyTxn
    /\ pc' = "fix_check"
    /\ UNCHANGED <<ledgerVars, walletRecs, argVars, ledger, err, rev_reg_delta,
                   rev_entry_res, ret, openSessions, sent, fixCalls>>
    /\ UNCHANGED cancelVars
    /\ UNCHANGED regVars
    /\ UNCHANGED idVars
    /\ UNCHANGED resVars

\* lines 520-523: a revoked record is looked up in a delta without "revoked"
FixScanKeyError ==
    /\ pc = "fix_scan"
    /\ ScanRaises(query_by_ids, rev_reg_delta)
    /\ Raise("KeyError: 'revoked'")
    /\ UNCHANGED <<ledgerVars, walletRecs, argVars, ledger, err, rev_reg_delta,
                   revoked_ids, rec_count, accum_count, recovery_txn, applied_txn,
                   rev_entry_res, openSessions, sent, fixCalls>>
    /\ UNCHANGED cancelVars
    /\ UNCHANGED regVars
    /\ UNCHANGED idVars
    /\ UNCHANGED resVars

\* line 537, false branch: no discrepancy
FixNoDiscrepancy ==
    /\ pc = "fix_check"
    /\ ~HasDiscrepancy(rec_count)
    /\ pc' = "fix_return"
    /\ UNCHANGED <<ledgerVars, walletRecs, argVars, ledger, err, rev_reg_delta,
                   revoked_ids, rec_count, accum_count, recovery_txn, applied_txn,
                   rev_entry_res, ret, openSessions, sent, fixCalls>>
    /\ UNCHANGED cancelVars
    /\ UNCHANGED regVars
    /\ UNCHANGED idVars
    /\ UNCHANGED resVars

\* mutant: the accumulator comparison decides whether a transaction is computed
FixGenerateByAccumulator ==
    /\ pc = "fix_check"
    /\ HasDiscrepancy(rec_count)
    /\ accum_count' = IF AccumMismatch(current_accumulator, rev_reg_delta)
                      THEN accum_count + 1 ELSE accum_count
    /\ recovery_txn' = IF AccumMismatch(current_accumulator, rev_reg_delta)
                       THEN generate_ledger_rrrecovery_txn(revoked_ids, ledgerRevoked, ledgerAccum)
                       ELSE EmptyTxn
    /\ pc' = "fix_apply"
    /\ UNCHANGED <<ledgerVars, walletRecs, argVars, ledger, err, rev_reg_delta,
                   revoked_ids, rec_count, applied_txn, rev_entry_res, ret,
                   openSessions, sent, fixCalls>>
    /\ UNCHANGED cancelVars
    /\ UNCHANGED regVars
    /\ UNCHANGED idVars
    /\ UNCHANGED resVars

\* lines 537-553: the accumulators are compared and the corrective transaction computed
FixGenerate ==
    /\ pc = "fix_check"
    /\ HasDiscrepancy(rec_count)
    /\ accum_count' = IF AccumMismatch(current_accumulator, rev_reg_delta)
                      THEN accum_count + 1 ELSE accum_count
    /\ recovery_txn' = generate_ledger_rrrecovery_txn(revoked_ids, ledgerRevoked, ledgerAccum)
    /\ pc' = "fix_apply"
    /\ UNCHANGED <<ledgerVars, walletRecs, argVars, ledger, err, rev_reg_delta,
                   revoked_ids, rec_count, applied_txn, rev_entry_res, ret,
                   openSessions, sent, fixCalls>>
    /\ UNCHANGED cancelVars
    /\ UNCHANGED regVars
    /\ UNCHANGED idVars
    /\ UNCHANGED resVars

\* line 556, false branch: dry run
FixSkipApply ==
    /\ pc = "fix_apply"
    /\ ~ShouldApply(apply_ledger_update)
    /\ pc' = "fix_return"
    /\ UNCHANGED <<ledgerVars, walletRecs, argVars, ledger, err, rev_reg_delta,
                   revoked_ids, rec_count, accum_count, recovery_txn, applied_txn,
                   rev_entry_res, ret, openSessions, sent, fixCalls>>
    /\ UNCHANGED cancelVars
    /\ UNCHANGED regVars
    /\ UNCHANGED idVars
    /\ UNCHANGED resVars

\* mutant: the missing ledger is reported whatever apply_ledger_update is
FixApplyNoLedgerAlways ==
    /\ pc = "fix_apply"
    /\ ledger' = "none"
    /\ Raise("LedgerError: No ledger available")
    /\ UNCHANGED <<ledgerVars, walletRecs, argVars, err, rev_reg_delta, revoked_ids,
                   rec_count, accum_count, recovery_txn, applied_txn, rev_entry_res,
                   openSessions, sent, fixCalls>>
    /\ UNCHANGED cancelVars
    /\ UNCHANGED regVars
    /\ UNCHANGED idVars
    /\ UNCHANGED resVars

\* lines 556-562: session.inject_or(BaseLedger) gives no ledger
FixApplyNoLedger ==
    /\ pc = "fix_apply"
    /\ ShouldApply(apply_ledger_update)
    /\ ledger' = "none"
    /\ Raise("LedgerError: No ledger available")
    /\ UNCHANGED <<ledgerVars, walletRecs, argVars, err, rev_reg_delta, revoked_ids,
                   rec_count, accum_count, recovery_txn, applied_txn, rev_entry_res,
                   openSessions, sent, fixCalls>>
    /\ UNCHANGED cancelVars
    /\ UNCHANGED regVars
    /\ UNCHANGED idVars
    /\ UNCHANGED resVars

\* lines 556-564: the ledger is there; async with ledger:
FixApplyOpen ==
    /\ pc = "fix_apply"
    /\ ShouldApply(apply_ledger_update)
    /\ ledger' = "bound"
    /\ openSessions' = openSessions + 1
    /\ pc' = "fix_send"
    /\ UNCHANGED <<ledgerVars, walletRecs, argVars, err, rev_reg_delta, revoked_ids,
                   rec_count, accum_count, recovery_txn, applied_txn, rev_entry_res,
                   ret, sent, fixCalls>>
    /\ UNCHANGED cancelVars
    /\ UNCHANGED regVars
    /\ UNCHANGED idVars
    /\ UNCHANGED resVars

\* mutant: the corrective entry publishes one of the missed indices
FixSendOkOneIndex ==
    /\ pc = "fix_send"
    /\ LET one == {CHOOSE i \in recovery_txn.revoked : TRUE}
       IN  /\ sent' = Append(sent, Submission("fix_ledger_entry", CorrectiveType,
                                              [recovery_txn EXCEPT !.revoked = one]))
           /\ ledgerRevoked' = ledgerRevoked \cup one
    /\ ledgerAccum' = recovery_txn.accum
    /\ ledgerSeqNo' = ledgerSeqNo + 1
    /\ applied_txn' = [recovery_txn EXCEPT !.seqNo = ledgerSeqNo + 1]
    /\ openSessions' = openSessions - 1
    /\ pc' = "fix_return"
    /\ UNCHANGED <<walletRecs, argVars, ledger, err, rev_reg_delta, revoked_ids,
                   rec_count, accum_count, recovery_txn, rev_entry_res, ret, fixCalls>>
    /\ UNCHANGED cancelVars
    /\ UNCHANGED regVars
    /\ UNCHANGED idVars
    /\ UNCHANGED resVars

\* lines 565-569: the corrective entry is written; the ledger adds its indices to
\* the registry's revoked set and takes its accumulator
FixSendOk ==
    /\ pc = "fix_send"
    /\ sent' = Append(sent, Submission("fix_ledger_entry", CorrectiveType, recovery_txn))
    /\ ledgerRevoked' = ledgerRevoked \cup recovery_txn.revoked
    /\ ledgerAccum' = recovery_txn.accum
    /\ ledgerSeqNo' = ledgerSeqNo + 1
    /\ applied_txn' = [recovery_txn EXCEPT !.seqNo = ledgerSeqNo + 1]
    /\ openSessions' = openSessions - 1
    /\ pc' = "fix_return"
    /\ UNCHANGED <<walletRecs, argVars, ledger, err, rev_reg_delta, revoked_ids,
                   rec_count, accum_count, recovery_txn, rev_entry_res, ret, fixCalls>>
    /\ UNCHANGED cancelVars
    /\ UNCHANGED regVars
    /\ UNCHANGED idVars
    /\ UNCHANGED resVars

\* mutant: the failed corrective write leaves its session open
FixSendErrorLeaking ==
    /\ pc = "fix_send"
    /\ sent' = Append(sent, Submission("fix_ledger_entry", CorrectiveType, recovery_txn))
    /\ Raise("LedgerError")
    /\ UNCHANGED <<ledgerVars, walletRecs, argVars, ledger, err, rev_reg_delta,
                   revoked_ids, rec_count, accum_count, recovery_txn, applied_txn,
                   rev_entry_res, openSessions, fixCalls>>
    /\ UNCHANGED cancelVars
    /\ UNCHANGED regVars
    /\ UNCHANGED idVars
    /\ UNCHANGED resVars

\* lines 564-567: the corrective write fails; the session is left, the error propagates
FixSendError ==
    /\ pc = "fix_send"
    /\ sent' = Append(sent, Submission("fix_ledger_entry", CorrectiveType, recovery_txn))
    /\ openSessions' = openSessions - 1
    /\ Raise("LedgerError")
    /\ UNCHANGED <<ledgerVars, walletRecs, argVars, ledger, err, rev_reg_delta,
                   revoked_ids, rec_count, accum_count, recovery_txn, applied_txn,
                   rev_entry_res, fixCalls>>
    /\ UNCHANGED cancelVars
    /\ UNCHANGED regVars
    /\ UNCHANGED idVars
    /\ UNCHANGED resVars

\* line 571: return (rev_reg_delta, recovery_txn, applied_txn), to the caller of the
\* registry or into register_revocation_status_list
FixReturn ==
    /\ pc = "fix_return"
    /\ ret' = [NoRet EXCEPT !.kind = "return", !.what = "tuple", !.delta = rev_reg_delta,
                            !.recovery = recovery_txn, !.applied = applied_txn]
    /\ pc' = IF op = "fix_ledger_entry" THEN "done" ELSE "status_after_fix"
    /\ UNCHANGED <<ledgerVars, walletRecs, argVars, ledger, err, rev_reg_delta,
                   revoked_ids, rec_count, accum_count, recovery_txn, applied_txn,
                   rev_entry_res, openSessions, sent, fixCalls>>
    /\ UNCHANGED cancelVars
    /\ UNCHANGED regVars
    /\ UNCHANGED idVars
    /\ UNCHANGED resVars

\* the call that ends ran fix_ledger_entry with apply_ledger_update to its return
\* (line 571), called directly or by the repair of lines 457-462
FixCompleted ==
    /\ apply_ledger_update
    /\ \/ op = "fix_ledger_entry" /\ ret.kind = "return"
       \/ /\ op = "register_revocation_status_list" /\ fixCalls > 0
          /\ ret.what \in {"STATE_FINISHED", "KeyError"}

\* the caller has the outcome; the registry is ready for the next call
Finish ==
    /\ pc = "done"
    /\ pc' = "idle"
    /\ op' = "none"
    /\ apply_ledger_update' = FALSE
    /\ current_accumulator' = NoAccum
    /\ ResetLocals
    /\ healed' = (healed \/ FixCompleted)
    /\ UNCHANGED <<kept, fixer, submitted>>
    /\ UNCHANGED <<ledgerVars, walletRecs, calls, pre, openSessions>>
    /\ UNCHANGED cancelVars
    /\ UNCHANGED regVars
    /\ UNCHANGED idVars

Next ==
    \/ \E i \in Indices : RevokeLocally(i)
    \/ CallRegisterStatusList
    \/ CallFixLedgerEntry
    \/ StatusNoLedger
    \/ StatusSendOk
    \/ StatusSendRejected
    \/ StatusSendLedgerError
    \/ StatusRepair
    \/ StatusTaa
    \/ StatusUnknown
    \/ StatusAfterFix
    \/ StatusReturn
    \/ FixNoLedger
    \/ FixOpenDelta
    \/ FixReadDelta
    \/ FixReadDeltaSparse
    \/ FixReadDeltaError
    \/ FixScanWallet
    \/ FixScanKeyError
    \/ FixNoDiscrepancy
    \/ FixGenerate
    \/ FixSkipApply
    \/ FixApplyNoLedger
    \/ FixApplyOpen
    \/ FixSendOk
    \/ FixSendError
    \/ FixReturn
    \/ Finish

Spec == Init /\ [][Next]_vars

\* ------------------------------------------------------------------------
\* The submit step of the four registration operations, with the caller's
\* context cancelled at a suspension point and the caller retrying.
\*   register_schema                          lines 190-203
\*   register_credential_definition           lines 304-329
\*   register_revocation_registry_definition  lines 400-408
\*   register_revocation_status_list          lines 439-447
\* ------------------------------------------------------------------------
Kinds == {"schema", "cred_def", "rev_reg_def", "rev_status_list"}

Attempts == 1..MaxAttempts

\* is the ledger write awaited through asyncio.shield (lines 192, 306; not 402, 440)
Shielded(k) == k \in {"schema", "cred_def"}

\* is the write made inside `async with ledger:` (lines 190, 305, 401; not 440)
UsesSession(k) == k \in {"schema", "cred_def", "rev_reg_def"}

\* the ledger keys schemas, credential definitions and registry definitions by their
\* identifier; status list entries are appended
UniqueOnLedger(k) == k # "rev_status_list"

OnLedger(k) == \E n \in 1..Len(objLog) : objLog[n].kind = k

InitCancel ==
    /\ ledgerRevoked = {}
    /\ ledgerAccum = 1
    /\ ledgerSeqNo = 0
    /\ walletRecs = [i \in Indices |-> STATE_ISSUED]
    /\ InitCall
    /\ kind \in Kinds
    /\ callState = [a \in Attempts |-> IF a = 1 THEN "ready" ELSE "none"]
    /\ writeState = [a \in Attempts |-> "none"]
    /\ writeResult = [a \in Attempts |-> "none"]
    /\ session = [a \in Attempts |-> FALSE]
    /\ objLog = <<>>
    /\ InitRegIdle

\* the call enters the ledger session (if it uses one), starts the send coroutine
\* and awaits it
Dispatch(a) ==
    /\ callState[a] = "ready"
    /\ callState' = [callState EXCEPT ![a] = "awaiting"]
    /\ writeState' = [writeState EXCEPT ![a] = "inflight"]
    /\ session' = [session EXCEPT ![a] = UsesSession(kind)]
    /\ UNCHANGED <<kind, writeResult, objLog>>
    /\ UNCHANGED reconVars
    /\ UNCHANGED regVars
    /\ UNCHANGED idVars
    /\ UNCHANGED resVars

\* the ledger takes the transaction of a write in flight
LedgerAccept(a) ==
    /\ writeState[a] = "inflight"
    /\ ~(UniqueOnLedger(kind) /\ OnLedger(kind))
    /\ objLog' = Append(objLog, [kind |-> kind, by |-> a])
    /\ writeState' = [writeState EXCEPT ![a] = "applied"]
    /\ writeResult' = [writeResult EXCEPT ![a] = "ok"]
    /\ UNCHANGED <<kind, callState, session>>
    /\ UNCHANGED reconVars
    /\ UNCHANGED regVars
    /\ UNCHANGED idVars
    /\ UNCHANGED resVars

\* the ledger answers that the object exists already
LedgerExists(a) ==
    /\ writeState[a] = "inflight"
    /\ UniqueOnLedger(kind) /\ OnLedger(kind)
    /\ writeState' = [writeState EXCEPT ![a] = "applied"]
    /\ writeResult' = [writeResult EXCEPT ![a] = "exists"]
    /\ UNCHANGED <<kind, callState, session, objLog>>
    /\ UNCHANGED reconVars
    /\ UNCHANGED regVars
    /\ UNCHANGED idVars
    /\ UNCHANGED resVars

\* the ledger rejects the transaction, or the transport fails
LedgerFail(a) ==
    /\ writeState[a] = "inflight"
    /\ writeState' = [writeState EXCEPT ![a] = "applied"]
    /\ writeResult' = [writeResult EXCEPT ![a] = "error"]
    /\ UNCHANGED <<kind, callState, session, objLog>>
    /\ UNCHANGED reconVars
    /\ UNCHANGED regVars
    /\ UNCHANGED idVars
    /\ UNCHANGED resVars

\* the send coroutine finishes and the awaiting call goes on with its outcome,
\* leaving the ledger session
CompleteAwaited(a) ==
    /\ writeState[a] = "applied"
    /\ callState[a] = "awaiting"
    /\ writeState' = [writeState EXCEPT ![a] = "done"]
    /\ callState' = [callState EXCEPT ![a] = "resumed"]
    /\ session' = [session EXCEPT ![a] = FALSE]
    /\ UNCHANGED <<kind, writeResult, objLog>>
    /\ UNCHANGED reconVars
    /\ UNCHANGED regVars
    /\ UNCHANGED idVars
    /\ UNCHANGED resVars

\* the shielded send coroutine finishes after its caller was cancelled
CompleteShielded(a) ==
    /\ writeState[a] = "applied"
    /\ callState[a] = "cancelled"
    /\ writeState' = [writeState EXCEPT ![a] = "done"]
    /\ UNCHANGED <<kind, callState, writeResult, session, objLog>>
    /\ UNCHANGED reconVars
    /\ UNCHANGED regVars
    /\ UNCHANGED idVars
    /\ UNCHANGED resVars

\* the caller's context is cancelled while the call awaits the write:
\* CancelledError is raised at the await and unwinds the call (leaving the ledger
\* session); a write that is not shielded is cancelled with it
Cancel(a) ==
    /\ callState[a] = "awaiting"
    /\ callState' = [callState EXCEPT ![a] = "cancelled"]
    /\ session' = [session EXCEPT ![a] = FALSE]
    /\ writeState' = [writeState EXCEPT ![a] = IF Shielded(kind) THEN @ ELSE "aborted"]
    /\ UNCHANGED <<kind, writeResult, objLog>>
    /\ UNCHANGED reconVars
    /\ UNCHANGED regVars
    /\ UNCHANGED idVars
    /\ UNCHANGED resVars

\* the caller of a cancelled registration calls it again with the same arguments
Retry(a) ==
    /\ a > 1
    /\ callState[a] = "none"
    /\ callState[a - 1] = "cancelled"
    /\ callState' = [callState EXCEPT ![a] = "ready"]
    /\ UNCHANGED <<kind, writeState, writeResult, session, objLog>>
    /\ UNCHANGED reconVars
    /\ UNCHANGED regVars
    /\ UNCHANGED idVars
    /\ UNCHANGED resVars

NextCancel ==
    \E a \in Attempts :
        \/ Dispatch(a)
        \/ LedgerAccept(a)
        \/ LedgerExists(a)
        \/ LedgerFail(a)
        \/ CompleteAwaited(a)
        \/ CompleteShielded(a)
        \/ Cancel(a)
        \/ Retry(a)

SpecCancel == InitCancel /\ [][NextCancel]_vars

\* ------------------------------------------------------------------------
\* The registrar: register_schema, get_schema, register_credential_definition
\* and register_revocation_registry_definition against one ledger, one call
\* at a time.
\* ------------------------------------------------------------------------
\* transactions the ledger takes in one behaviour
MaxChain == 2

\* credential definitions the issuer's wallet may hold
MaxWallet == 1

\* transactions on the ledger before the first one of this behaviour
GenesisSize == 8

Issuers == {<<"i">>, <<"d", ":", "e">>}
Names == {<<"n">>}
Versions == {<<"2">>}
AttrNameSets == {{"a"}, {"a", "b"}}

\* AnonCredsSchema values a caller may register
Schemas ==
    [issuer_id : Issuers, name : Names, version : Versions, attr_names : AttrNameSets]

SignatureTypes == {NoneVal, <<"C", "L">>}
Tags == {<<>>, <<"t">>}
CredDefValues == {"v1"}

\* CredDef values a caller may register for a resolved schema
CredDefsFor(schema_id) ==
    [issuer_id : {<<"i">>}, schema_id : {schema_id}, type : SignatureTypes,
     tag : Tags, value : CredDefValues]

\* tails_location a caller may have put into the definition it supplies
SuppliedTails == {NoneVal, <<"x">>}
TailsHashes == {"h1"}

\* RevRegDef values a caller may register
RevRegDefs ==
    [issuer_id : {<<"i">>}, type : {<<"A">>}, cred_def_id : {<<"c">>}, tag : {<<"0">>},
     value : [tails_location : SuppliedTails, tails_hash : TailsHashes]]

\* values of the tails_server_base_url setting
TailsBases ==
    {NoneVal, <<>>,
     <<"h", ":", "/", "/", "t">>,
     <<"h", ":", "/", "/", "t", "/", "/">>,
     <<"t">>,
     <<"h", ":">>}

\* options a caller may pass
OptionSets == {NoneObj, [seqNo |-> 1]}

\* a GetSchemaResult of a registry that keeps no sequence number
ForeignSchemaResult ==
    [schema |-> [issuer_id |-> <<"i">>, name |-> <<"n">>, version |-> <<"2">>,
                 attr_names |-> {"a"}],
     schema_id |-> <<"f">>,
     resolution_metadata |-> EmptyDict,
     schema_metadata |-> EmptyDict]

\* a schema identifier nobody registered
UnknownSchemaId == <<"u">>

\* --------------------------------------------------- the ledger's answers
\* positions of the transactions of one kind with one identifier
OnChain(k, id) == {n \in 1..Len(chain) : chain[n].kind = k /\ chain[n].id = id}

\* positions of the transactions of one kind
KindOnChain(k) == {n \in 1..Len(chain) : chain[n].kind = k}

\* the ledger's copy of an object that is on the chain
Existing(k, id) == chain[CHOOSE n \in OnChain(k, id) : TRUE]

\* the sequence number the ledger gives to its next transaction
NextSeqNo == GenesisSize + Len(chain) + 1

\* the ledger takes the write: it is appended under the next sequence number
Written(k, id, obj) ==
    Append(chain, [kind |-> k, id |-> id, obj |-> obj, seqNo |-> NextSeqNo])

\* ------------------------------------------------------- the call frame
Idle == reg.pc = "idle"

At(o, p) == reg.op = o /\ reg.pc = p

Did(step) == \E n \in 1..Len(reg.steps) : reg.steps[n] = step

\* the call ends by raising
Raises(r, type, message, obj) ==
    [r EXCEPT !.pc = "done",
              !.exc = [type |-> type, message |-> message, obj |-> obj]]

StartReg(o, a, schema, options, id) ==
    /\ Idle
    /\ reg' = [IdleReg EXCEPT !.pc = "start", !.op = o, !.arg = a,
                              !.schema = schema, !.options = options, !.id = id]

\* the caller takes the outcome of the call
FinishReg ==
    /\ reg.pc = "done"
    /\ reg' = IdleReg
    /\ UNCHANGED <<chain, credDefInWallet, tails_base_url, resolved>>
    /\ UNCHANGED <<reconVars, cancelVars, idVars, resVars>>

\* -------------------------------------------------------- register_schema
\* line 167; register_schema never reads its options
CallRegisterSchema ==
    \E schema \in Schemas :
        /\ StartReg("register_schema", schema, NoneObj, NoneObj, make_schema_id(schema))
        /\ UNCHANGED <<chain, credDefInWallet, tails_base_url, resolved>>
        /\ UNCHANGED <<reconVars, cancelVars, idVars, resVars>>

\* lines 170-176
SchemaNoLedger ==
    /\ At("register_schema", "start")
    /\ reg' = [Raises(reg, "AnonCredsRegistrationError", "No ledger available", NoneObj)
               EXCEPT !.answer = "no_ledger"]
    /\ UNCHANGED <<chain, credDefInWallet, tails_base_url, resolved>>
    /\ UNCHANGED <<reconVars, cancelVars, idVars, resVars>>

\* lines 180-187
indy_schema(schema_id, schema) ==
    [ver |-> <<"1", ".", "0">>, id |-> schema_id, name |-> schema.name,
     version |-> schema.version, attrNames |-> schema.attr_names, seqNo |-> NoneVal]

\* lines 170-188
SchemaInject ==
    /\ At("register_schema", "start")
    /\ reg' = [reg EXCEPT !.pc = "send", !.wire = indy_schema(reg.id, reg.arg)]
    /\ UNCHANGED <<chain, credDefInWallet, tails_base_url, resolved>>
    /\ UNCHANGED <<reconVars, cancelVars, idVars, resVars>>

\* lines 190-192: the ledger takes the schema
SchemaSendOk ==
    /\ At("register_schema", "send")
    /\ OnChain("schema", reg.id) = {}
    /\ Len(chain) < MaxChain
    /\ chain' = Written("schema", reg.id, reg.wire)
    /\ reg' = [reg EXCEPT !.pc = "return", !.answer = "ok", !.seq_no = NextSeqNo,
                          !.assigned = NextSeqNo,
                          !.steps = @ \o <<"session", "send">>]
    /\ UNCHANGED <<credDefInWallet, tails_base_url, resolved>>
    /\ UNCHANGED <<reconVars, cancelVars, idVars, resVars>>

\* lines 194-200: the schema rebuilt from the ledger's copy
SchemaFromIndy(obj) ==
    [issuer_id |-> SplitFirst(obj.id), name |-> obj.name, version |-> obj.version,
     attr_names |-> obj.attrNames]

\* lines 193-201: the ledger holds a schema with this identifier
SchemaSendExists ==
    /\ At("register_schema", "send")
    /\ OnChain("schema", reg.id) # {}
    /\ LET found == Existing("schema", reg.id)
       IN  reg' = [Raises(reg, "AnonCredsSchemaAlreadyExists", "exists",
                          [id |-> found.id, artifact |-> SchemaFromIndy(found.obj)])
                   EXCEPT !.answer = "exists", !.existing = found,
                          !.steps = @ \o <<"session", "send">>]
    /\ UNCHANGED <<chain, credDefInWallet, tails_base_url, resolved>>
    /\ UNCHANGED <<reconVars, cancelVars, idVars, resVars>>

\* lines 202-203
SchemaSendError ==
    /\ At("register_schema", "send")
    /\ reg' = [Raises(reg, "AnonCredsRegistrationError", "Failed to register schema", NoneObj)
               EXCEPT !.answer = "error", !.steps = @ \o <<"session", "send">>]
    /\ UNCHANGED <<chain, credDefInWallet, tails_base_url, resolved>>
    /\ UNCHANGED <<reconVars, cancelVars, idVars, resVars>>

\* lines 205-214
SchemaReturn ==
    /\ At("register_schema", "return")
    /\ reg' = [reg EXCEPT !.pc = "done",
                          !.result = [job_id |-> NoneVal, state |-> "finished",
                                      id |-> reg.id, artifact |-> reg.arg,
                                      registration_metadata |-> EmptyDict,
                                      metadata |-> [seqNo |-> reg.seq_no]]]
    /\ UNCHANGED <<chain, credDefInWallet, tails_base_url, resolved>>
    /\ UNCHANGED <<reconVars, cancelVars, idVars, resVars>>

\* ------------------------------------------------------------- get_schema
\* what ledger.get_schema answers for a schema on the chain
LedgerSchema(txn) == [txn.obj EXCEPT !.seqNo = txn.seqNo]

\* lines 142-153
SchemaResultOf(schema) ==
    [schema |-> [issuer_id |-> SplitFirst(schema.id), name |-> schema.name,
                 version |-> schema.ver, attr_names |-> schema.attrNames],
     schema_id |-> schema.id,
     resolution_metadata |-> [ledger_id |-> "ledger"],
     schema_metadata |-> [seqNo |-> schema.seqNo]]

\* lines 114-125: asked for a schema on the ledger or for an unknown one
CallGetSchema ==
    /\ Idle
    /\ \E id \in {chain[n].id : n \in KindOnChain("schema")} \cup {UnknownSchemaId} :
           reg' = [IdleReg EXCEPT !.pc = "start", !.op = "get_schema", !.id = id]
    /\ UNCHANGED <<chain, credDefInWallet, tails_base_url, resolved>>
    /\ UNCHANGED <<reconVars, cancelVars, idVars, resVars>>

\* lines 127-131
GetSchemaNoLedger ==
    /\ At("get_schema", "start")
    /\ reg' = [Raises(reg, "AnonCredsResolutionError", "No ledger available", NoneObj)
               EXCEPT !.answer = "no_ledger"]
    /\ UNCHANGED <<chain, credDefInWallet, tails_base_url, resolved>>
    /\ UNCHANGED <<reconVars, cancelVars, idVars, resVars>>

\* lines 133-153, 157: the result, which the caller keeps
GetSchemaFound ==
    /\ At("get_schema", "start")
    /\ OnChain("schema", reg.id) # {}
    /\ LET result == SchemaResultOf(LedgerSchema(Existing("schema", reg.id)))
       IN  /\ reg' = [reg EXCEPT !.pc = "done", !.answer = "ok", !.result = result,
                                 !.steps = @ \o <<"session", "read">>]
           /\ resolved' = result
    /\ UNCHANGED <<chain, credDefInWallet, tails_base_url>>
    /\ UNCHANGED <<reconVars, cancelVars, idVars, resVars>>

\* lines 136-140
GetSchemaNotFound ==
    /\ At("get_schema", "start")
    /\ OnChain("schema", reg.id) = {}
    /\ reg' = [Raises(reg, "AnonCredsObjectNotFound", "Credential definition not found",
                      NoneObj)
               EXCEPT !.answer = "none", !.steps = @ \o <<"session", "read">>]
    /\ UNCHANGED <<chain, credDefInWallet, tails_base_url, resolved>>
    /\ UNCHANGED <<reconVars, cancelVars, idVars, resVars>>

\* lines 154-155
GetSchemaLedgerError ==
    /\ At("get_schema", "start")
    /\ reg' = [Raises(reg, "AnonCredsResolutionError", "Failed to retrieve schema", NoneObj)
               EXCEPT !.answer = "error", !.steps = @ \o <<"session", "read">>]
    /\ UNCHANGED <<chain, credDefInWallet, tails_base_url, resolved>>
    /\ UNCHANGED <<reconVars, cancelVars, idVars, resVars>>

\* ----------------------------------------- register_credential_definition
\* lines 263-272: the caller passes the resolution it holds, or one of a
\* registry that keeps no sequence number
CallRegisterCredDef ==
    \E schema \in {resolved, ForeignSchemaResult} \ {NoneObj}, options \in OptionSets :
        \E cred_def \in CredDefsFor(schema.schema_id) :
            /\ StartReg("register_credential_definition", cred_def, schema, options, <<>>)
            /\ UNCHANGED <<chain, credDefInWallet, tails_base_url, resolved>>
            /\ UNCHANGED <<reconVars, cancelVars, idVars, resVars>>

\* lines 272, 97-102: the schema's metadata holds no seqNo
CredDefMissingSeqNo ==
    /\ At("register_credential_definition", "start")
    /\ make_cred_def_id(reg.schema, reg.arg).raised
    /\ reg' = Raises(reg, "AnonCredsRegistrationError",
                     "Legacy Indy only supports schemas from Legacy Indy", NoneObj)
    /\ UNCHANGED <<chain, credDefInWallet, tails_base_url, resolved>>
    /\ UNCHANGED <<reconVars, cancelVars, idVars, resVars>>

\* lines 272-279
CredDefNoLedger ==
    /\ At("register_credential_definition", "start")
    /\ ~make_cred_def_id(reg.schema, reg.arg).raised
    /\ reg' = [Raises(reg, "AnonCredsRegistrationError", "No ledger available", NoneObj)
               EXCEPT !.id = make_cred_def_id(reg.schema, reg.arg).id,
                      !.answer = "no_ledger"]
    /\ UNCHANGED <<chain, credDefInWallet, tails_base_url, resolved>>
    /\ UNCHANGED <<reconVars, cancelVars, idVars, resVars>>

\* mutant: the call goes on to the submission without asking the wallet
CredDefWalletLookupSkipped ==
    /\ At("register_credential_definition", "start")
    /\ ~make_cred_def_id(reg.schema, reg.arg).raised
    /\ reg' = [reg EXCEPT !.id = make_cred_def_id(reg.schema, reg.arg).id, !.pc = "send"]
    /\ UNCHANGED <<chain, credDefInWallet, tails_base_url, resolved>>
    /\ UNCHANGED <<reconVars, cancelVars, idVars, resVars>>

\* lines 272-283: the identifier is derived, the ledger injected and the wallet asked
CredDefWalletLookup ==
    /\ At("register_credential_definition", "start")
    /\ ~make_cred_def_id(reg.schema, reg.arg).raised
    /\ LET cred_def_id == make_cred_def_id(reg.schema, reg.arg).id
       IN  reg' = [reg EXCEPT !.id = cred_def_id,
                              !.pc = IF cred_def_id \in credDefInWallet
                                     THEN "resolve" ELSE "send",
                              !.steps = @ \o <<"wallet_lookup">>]
    /\ UNCHANGED <<chain, credDefInWallet, tails_base_url, resolved>>
    /\ UNCHANGED <<reconVars, cancelVars, idVars, resVars>>

\* lines 285, 238-261: the ledger resolves the identifier
CredDefResolveFound ==
    /\ At("register_credential_definition", "resolve")
    /\ OnChain("cred_def", reg.id) # {}
    /\ reg' = [reg EXCEPT !.pc = "send", !.steps = @ \o <<"session", "read", "found">>]
    /\ UNCHANGED <<chain, credDefInWallet, tails_base_url, resolved>>
    /\ UNCHANGED <<reconVars, cancelVars, idVars, resVars>>

\* mutant: not on the ledger, so the call goes on to write
CredDefResolveNotFoundProceeds ==
    /\ At("register_credential_definition", "resolve")
    /\ OnChain("cred_def", reg.id) = {}
    /\ reg' = [reg EXCEPT !.pc = "send", !.steps = @ \o <<"session", "read", "not_found">>]
    /\ UNCHANGED <<chain, credDefInWallet, tails_base_url, resolved>>
    /\ UNCHANGED <<reconVars, cancelVars, idVars, resVars>>

\* lines 285-290, 241-245: in the wallet, not on the ledger
CredDefResolveNotFound ==
    /\ At("register_credential_definition", "resolve")
    /\ OnChain("cred_def", reg.id) = {}
    /\ reg' = [Raises(reg, "AnonCredsRegistrationError",
                      "already exists in wallet but not on the ledger", NoneObj)
               EXCEPT !.steps = @ \o <<"session", "read", "not_found">>]
    /\ UNCHANGED <<chain, credDefInWallet, tails_base_url, resolved>>
    /\ UNCHANGED <<reconVars, cancelVars, idVars, resVars>>

\* lines 285, 232-236: get_credential_definition finds no ledger; nothing catches it
CredDefResolveNoLedger ==
    /\ At("register_credential_definition", "resolve")
    /\ reg' = Raises(reg, "AnonCredsResolutionError", "No ledger available", NoneObj)
    /\ UNCHANGED <<chain, credDefInWallet, tails_base_url, resolved>>
    /\ UNCHANGED <<reconVars, cancelVars, idVars, resVars>>

\* lines 285, 238-239: the read fails; nothing catches the LedgerError
CredDefResolveLedgerError ==
    /\ At("register_credential_definition", "resolve")
    /\ reg' = [Raises(reg, "LedgerError", "ledger", NoneObj)
               EXCEPT !.steps = @ \o <<"session", "read">>]
    /\ UNCHANGED <<chain, credDefInWallet, tails_base_url, resolved>>
    /\ UNCHANGED <<reconVars, cancelVars, idVars, resVars>>

\* lines 294-301
indy_cred_def(cred_def_id, schema, cred_def) ==
    [id |-> cred_def_id, schemaId |-> str(schema.schema_metadata["seqNo"]),
     tag |-> cred_def.tag, type |-> cred_def.type, value |-> cred_def.value,
     ver |-> <<"1", ".", "0">>]

\* lines 304-314: the ledger takes the credential definition
CredDefSendOk ==
    /\ At("register_credential_definition", "send")
    /\ OnChain("cred_def", reg.id) = {}
    /\ Len(chain) < MaxChain
    /\ LET wire == indy_cred_def(reg.id, reg.schema, reg.arg)
       IN  /\ chain' = Written("cred_def", reg.id, wire)
           /\ reg' = [reg EXCEPT !.pc = "return", !.answer = "ok", !.wire = wire,
                                 !.seq_no = NextSeqNo, !.assigned = NextSeqNo,
                                 !.steps = @ \o <<"session", "send">>]
    /\ UNCHANGED <<credDefInWallet, tails_base_url, resolved>>
    /\ UNCHANGED <<reconVars, cancelVars, idVars, resVars>>

\* lines 315-325: the ledger holds a credential definition with this identifier
CredDefSendExists ==
    /\ At("register_credential_definition", "send")
    /\ OnChain("cred_def", reg.id) # {}
    /\ reg' = [Raises(reg, "AnonCredsObjectAlreadyExists",
                      IF reg.id \in credDefInWallet
                      THEN "already exists in wallet and on ledger."
                      ELSE "is on ledger but not in wallet",
                      NoneObj)
               EXCEPT !.answer = "exists", !.existing = Existing("cred_def", reg.id),
                      !.wire = indy_cred_def(reg.id, reg.schema, reg.arg),
                      !.steps = @ \o <<"session", "send", "wallet_lookup">>]
    /\ UNCHANGED <<chain, credDefInWallet, tails_base_url, resolved>>
    /\ UNCHANGED <<reconVars, cancelVars, idVars, resVars>>

\* lines 326-329
CredDefSendError ==
    /\ At("register_credential_definition", "send")
    /\ reg' = [Raises(reg, "AnonCredsRegistrationError",
                      "Failed to register credential definition", NoneObj)
               EXCEPT !.answer = "error",
                      !.wire = indy_cred_def(reg.id, reg.schema, reg.arg),
                      !.steps = @ \o <<"session", "send">>]
    /\ UNCHANGED <<chain, credDefInWallet, tails_base_url, resolved>>
    /\ UNCHANGED <<reconVars, cancelVars, idVars, resVars>>

\* lines 331-340
CredDefReturn ==
    /\ At("register_credential_definition", "return")
    /\ reg' = [reg EXCEPT !.pc = "done",
                          !.result = [job_id |-> NoneVal, state |-> "finished",
                                      id |-> reg.id, artifact |-> reg.arg,
                                      registration_metadata |-> EmptyDict,
                                      metadata |-> DictMerge([seqNo |-> reg.seq_no],
                                                             OrEmpty(reg.options))]]
    /\ UNCHANGED <<chain, credDefInWallet, tails_base_url, resolved>>
    /\ UNCHANGED <<reconVars, cancelVars, idVars, resVars>>

\* -------------------------------- register_revocation_registry_definition
\* lines 364-370; the operation never reads its options
CallRegisterRevRegDef ==
    \E rev_reg_def \in RevRegDefs :
        /\ StartReg("register_revocation_registry_definition", rev_reg_def, NoneObj,
                    NoneObj, <<>>)
        /\ UNCHANGED <<chain, credDefInWallet, tails_base_url, resolved>>
        /\ UNCHANGED <<reconVars, cancelVars, idVars, resVars>>

\* lines 372-374
RevRegDefNoTailsBase ==
    /\ At("register_revocation_registry_definition", "start")
    /\ ~Truthy(tails_base_url)
    /\ reg' = Raises(reg, "AnonCredsRegistrationError",
                     "tails_server_base_url not configured", NoneObj)
    /\ UNCHANGED <<chain, credDefInWallet, tails_base_url, resolved>>
    /\ UNCHANGED <<reconVars, cancelVars, idVars, resVars>>

\* lines 376-379: the supplied definition gets the computed tails_location
RevRegDefSetTails ==
    /\ At("register_revocation_registry_definition", "start")
    /\ Truthy(tails_base_url)
    /\ LET rev_reg_def_id == make_rev_reg_def_id(reg.arg)
       IN  reg' = [reg EXCEPT !.pc = "check", !.id = rev_reg_def_id,
                              !.arg.value.tails_location =
                                  tails_location_of(tails_base_url, rev_reg_def_id),
                              !.steps = @ \o <<"mutate">>]
    /\ UNCHANGED <<chain, credDefInWallet, tails_base_url, resolved>>
    /\ UNCHANGED <<reconVars, cancelVars, idVars, resVars>>

\* lines 382, 359-362, 407: RevocationError is no LedgerError and passes the handler
RevRegDefBadUrl ==
    /\ At("register_revocation_registry_definition", "check")
    /\ ~check_url_ok(reg.arg.value.tails_location)
    /\ reg' = Raises(reg, "RevocationError", "is not a valid URL", NoneObj)
    /\ UNCHANGED <<chain, credDefInWallet, tails_base_url, resolved>>
    /\ UNCHANGED <<reconVars, cancelVars, idVars, resVars>>

\* lines 385-398
indy_rev_reg_def(rev_reg_def_id, rev_reg_def) ==
    [ver |-> <<"1", ".", "0">>, id |-> rev_reg_def_id,
     revocDefType |-> rev_reg_def.type, credDefId |-> rev_reg_def.cred_def_id,
     tag |-> rev_reg_def.tag,
     value |-> [issuanceType |-> "ISSUANCE_BY_DEFAULT",
                tailsHash |-> rev_reg_def.value.tails_hash,
                tailsLocation |-> rev_reg_def.value.tails_location]]

\* lines 400, 407: profile.inject raises InjectionError, which passes the handler
RevRegDefInjectFails ==
    /\ At("register_revocation_registry_definition", "check")
    /\ check_url_ok(reg.arg.value.tails_location)
    /\ reg' = [Raises(reg, "InjectionError", "no ledger", NoneObj)
               EXCEPT !.wire = indy_rev_reg_def(reg.id, reg.arg), !.answer = "no_ledger"]
    /\ UNCHANGED <<chain, credDefInWallet, tails_base_url, resolved>>
    /\ UNCHANGED <<reconVars, cancelVars, idVars, resVars>>

\* lines 382-400
RevRegDefInject ==
    /\ At("register_revocation_registry_definition", "check")
    /\ check_url_ok(reg.arg.value.tails_location)
    /\ reg' = [reg EXCEPT !.pc = "send", !.wire = indy_rev_reg_def(reg.id, reg.arg)]
    /\ UNCHANGED <<chain, credDefInWallet, tails_base_url, resolved>>
    /\ UNCHANGED <<reconVars, cancelVars, idVars, resVars>>

\* lines 401-406: the ledger takes the definition
RevRegDefSendOk ==
    /\ At("register_revocation_registry_definition", "send")
    /\ OnChain("rev_reg_def", reg.id) = {}
    /\ Len(chain) < MaxChain
    /\ chain' = Written("rev_reg_def", reg.id, reg.wire)
    /\ reg' = [reg EXCEPT !.pc = "return", !.answer = "ok", !.seq_no = NextSeqNo,
                          !.assigned = NextSeqNo,
                          !.steps = @ \o <<"session", "send">>]
    /\ UNCHANGED <<credDefInWallet, tails_base_url, resolved>>
    /\ UNCHANGED <<reconVars, cancelVars, idVars, resVars>>

\* lines 401-408: LedgerObjectAlreadyExistsError is a LedgerError
RevRegDefSendExists ==
    /\ At("register_revocation_registry_definition", "send")
    /\ OnChain("rev_reg_def", reg.id) # {}
    /\ reg' = [Raises(reg, "AnonCredsRegistrationError", "", NoneObj)
               EXCEPT !.answer = "exists", !.existing = Existing("rev_reg_def", reg.id),
                      !.steps = @ \o <<"session", "send">>]
    /\ UNCHANGED <<chain, credDefInWallet, tails_base_url, resolved>>
    /\ UNCHANGED <<reconVars, cancelVars, idVars, resVars>>

\* lines 407-408
RevRegDefSendError ==
    /\ At("register_revocation_registry_definition", "send")
    /\ reg' = [Raises(reg, "AnonCredsRegistrationError", "", NoneObj)
               EXCEPT !.answer = "error", !.steps = @ \o <<"session", "send">>]
    /\ UNCHANGED <<chain, credDefInWallet, tails_base_url, resolved>>
    /\ UNCHANGED <<reconVars, cancelVars, idVars, resVars>>

\* lines 410-419
RevRegDefReturn ==
    /\ At("register_revocation_registry_definition", "return")
    /\ reg' = [reg EXCEPT !.pc = "done",
                          !.result = [job_id |-> NoneVal, state |-> "finished",
                                      id |-> reg.id, artifact |-> reg.arg,
                                      registration_metadata |-> EmptyDict,
                                      metadata |-> [seqNo |-> reg.seq_no]]]
    /\ UNCHANGED <<chain, credDefInWallet, tails_base_url, resolved>>
    /\ UNCHANGED <<reconVars, cancelVars, idVars, resVars>>

\* ------------------------------------------------------------ environment
\* the issuer's wallet comes to hold a credential definition made for the
\* schema the caller resolved
IssuerStoresCredDef ==
    /\ Idle
    /\ resolved # NoneObj
    /\ Cardinality(credDefInWallet) < MaxWallet
    /\ \E cred_def \in CredDefsFor(resolved.schema_id) :
           credDefInWallet' = credDefInWallet \cup {make_cred_def_id(resolved, cred_def).id}
    /\ UNCHANGED <<chain, tails_base_url, reg, resolved>>
    /\ UNCHANGED <<reconVars, cancelVars, idVars, resVars>>

InitReg ==
    /\ ledgerRevoked = {}
    /\ ledgerAccum = 1
    /\ ledgerSeqNo = 0
    /\ walletRecs = [i \in Indices |-> STATE_ISSUED]
    /\ InitCall
    /\ InitCancelIdle
    /\ chain = <<>>
    /\ credDefInWallet = {}
    /\ tails_base_url \in TailsBases
    /\ reg = IdleReg
    /\ resolved = NoneObj
    /\ kept = NoKept
    /\ InitConcIdle
    /\ schemas = <<>>
    /\ schema_ids = <<>>

NextReg ==
    \/ CallRegisterSchema
    \/ SchemaNoLedger
    \/ SchemaInject
    \/ SchemaSendOk
    \/ SchemaSendExists
    \/ SchemaSendError
    \/ SchemaReturn
    \/ CallGetSchema
    \/ GetSchemaNoLedger
    \/ GetSchemaFound
    \/ GetSchemaNotFound
    \/ GetSchemaLedgerError
    \/ CallRegisterCredDef
    \/ CredDefMissingSeqNo
    \/ CredDefNoLedger
    \/ CredDefWalletLookup
    \/ CredDefResolveFound
    \/ CredDefResolveNotFound
    \/ CredDefResolveNoLedger
    \/ CredDefResolveLedgerError
    \/ CredDefSendOk
    \/ CredDefSendExists
    \/ CredDefSendError
    \/ CredDefReturn
    \/ CallRegisterRevRegDef
    \/ RevRegDefNoTailsBase
    \/ RevRegDefSetTails
    \/ RevRegDefBadUrl
    \/ RevRegDefInjectFails
    \/ RevRegDefInject
    \/ RevRegDefSendOk
    \/ RevRegDefSendExists
    \/ RevRegDefSendError
    \/ RevRegDefReturn
    \/ IssuerStoresCredDef
    \/ FinishReg

SpecReg == InitReg /\ [][NextReg]_vars

\* ------------------------------------------------------------------------
\* make_schema_id as a function: applied to two schemas whose issuer_id, name
\* and version are strings over an alphabet that holds the separator
\* ------------------------------------------------------------------------
\* longest name and version
MaxIdLen == 2

IdAlphabet == {"a", ":"}

RECURSIVE StringsUpTo(_)
StringsUpTo(n) ==
    IF n = 0 THEN {<<>>}
    ELSE LET shorter == StringsUpTo(n - 1)
         IN  shorter \cup {Append(s, c) : s \in shorter, c \in IdAlphabet}

IdStrings == StringsUpTo(MaxIdLen) \ {<<>>}

IdSchemas ==
    [issuer_id : {<<"i">>}, name : IdStrings, version : IdStrings,
     attr_names : AttrNameSets]

InitIds ==
    /\ ledgerRevoked = {}
    /\ ledgerAccum = 1
    /\ ledgerSeqNo = 0
    /\ walletRecs = [i \in Indices |-> STATE_ISSUED]
    /\ InitCall
    /\ InitCancelIdle
    /\ chain = <<>>
    /\ credDefInWallet = {}
    /\ tails_base_url = NoneVal
    /\ reg = IdleReg
    /\ resolved = NoneObj
    /\ kept = NoKept
    /\ InitConcIdle
    /\ schemas \in IdSchemas \X IdSchemas
    /\ schema_ids = <<>>

\* lines 83-86, applied to both schemas
DeriveSchemaIds ==
    /\ schema_ids = <<>>
    /\ schema_ids' = <<make_schema_id(schemas[1]), make_schema_id(schemas[2])>>
    /\ UNCHANGED <<schemas, reconVars, cancelVars, regVars, resVars>>

NextIds == DeriveSchemaIds

SpecIds == InitIds /\ [][NextIds]_vars

\* ------------------------------------------------- get_credential_definition
\* a credential definition identifier nobody registered
UnknownCredDefId == <<"u">>

\* lines 247-260
CredDefResultOf(cred_def) ==
    [credential_definition |->
         [issuer_id |-> SplitFirst(cred_def.id), schema_id |-> cred_def.schemaId,
          type |-> cred_def.type, tag |-> cred_def.tag, value |-> cred_def.value],
     credential_definition_id |-> cred_def.id,
     resolution_metadata |-> EmptyDict,
     credential_definition_metadata |-> EmptyDict]

\* lines 216-231: asked for a credential definition on the ledger or for an unknown one
CallGetCredDef ==
    /\ Idle
    /\ \E id \in {chain[n].id : n \in KindOnChain("cred_def")} \cup {UnknownCredDefId} :
           reg' = [IdleReg EXCEPT !.pc = "start", !.op = "get_credential_definition",
                                  !.id = id]
    /\ UNCHANGED <<chain, credDefInWallet, tails_base_url, resolved>>
    /\ UNCHANGED <<reconVars, cancelVars, idVars, resVars>>

\* mutant: the missing ledger is noticed only after a session and a read
GetCredDefNoLedgerAfterRead ==
    /\ At("get_credential_definition", "start")
    /\ reg' = [Raises(reg, "AnonCredsResolutionError", "No ledger available", NoneObj)
               EXCEPT !.answer = "no_ledger", !.steps = @ \o <<"session", "read">>]
    /\ UNCHANGED <<chain, credDefInWallet, tails_base_url, resolved>>
    /\ UNCHANGED <<reconVars, cancelVars, idVars, resVars>>

\* lines 232-236
GetCredDefNoLedger ==
    /\ At("get_credential_definition", "start")
    /\ reg' = [Raises(reg, "AnonCredsResolutionError", "No ledger available", NoneObj)
               EXCEPT !.answer = "no_ledger"]
    /\ UNCHANGED <<chain, credDefInWallet, tails_base_url, resolved>>
    /\ UNCHANGED <<reconVars, cancelVars, idVars, resVars>>

\* mutant: the resolution also records the identifier in the wallet
GetCredDefFoundStoring ==
    /\ At("get_credential_definition", "start")
    /\ OnChain("cred_def", reg.id) # {}
    /\ reg' = [reg EXCEPT !.pc = "done", !.answer = "ok",
                          !.result = CredDefResultOf(Existing("cred_def", reg.id).obj),
                          !.steps = @ \o <<"session", "read">>]
    /\ credDefInWallet' = credDefInWallet \cup {reg.id}
    /\ UNCHANGED <<chain, tails_base_url, resolved>>
    /\ UNCHANGED <<reconVars, cancelVars, idVars, resVars>>

\* lines 238-261
GetCredDefFound ==
    /\ At("get_credential_definition", "start")
    /\ OnChain("cred_def", reg.id) # {}
    /\ LET result == CredDefResultOf(Existing("cred_def", reg.id).obj)
       IN  reg' = [reg EXCEPT !.pc = "done", !.answer = "ok", !.result = result,
                              !.steps = @ \o <<"session", "read">>]
    /\ UNCHANGED <<chain, credDefInWallet, tails_base_url, resolved>>
    /\ UNCHANGED <<reconVars, cancelVars, idVars, resVars>>

\* mutant: a missing credential definition is reported as a resolution failure
GetCredDefNotFoundAsResolutionError ==
    /\ At("get_credential_definition", "start")
    /\ OnChain("cred_def", reg.id) = {}
    /\ reg' = [Raises(reg, "AnonCredsResolutionError", "Credential definition not found", NoneObj)
               EXCEPT !.answer = "none", !.steps = @ \o <<"session", "read">>]
    /\ UNCHANGED <<chain, credDefInWallet, tails_base_url, resolved>>
    /\ UNCHANGED <<reconVars, cancelVars, idVars, resVars>>

\* lines 238-245
GetCredDefNotFound ==
    /\ At("get_credential_definition", "start")
    /\ OnChain("cred_def", reg.id) = {}
    /\ reg' = [Raises(reg, "AnonCredsObjectNotFound", "Credential definition not found",
                      NoneObj)
               EXCEPT !.answer = "none", !.steps = @ \o <<"session", "read">>]
    /\ UNCHANGED <<chain, credDefInWallet, tails_base_url, resolved>>
    /\ UNCHANGED <<reconVars, cancelVars, idVars, resVars>>

\* lines 238-239: the read fails; no handler is around it, the LedgerError propagates
GetCredDefLedgerError ==
    /\ At("get_credential_definition", "start")
    /\ reg' = [Raises(reg, "LedgerError", "ledger", NoneObj)
               EXCEPT !.answer = "error", !.steps = @ \o <<"session", "read">>]
    /\ UNCHANGED <<chain, credDefInWallet, tails_base_url, resolved>>
    /\ UNCHANGED <<reconVars, cancelVars, idVars, resVars>>

\* ------------------------------------------------------------------------
\* Resolution: get_schema and get_credential_definition against a ledger that
\* holds the transactions of earlier registrations, with register_schema as
\* the write that may come between two resolutions.
\* ------------------------------------------------------------------------
ResolutionOps == {"get_schema", "get_credential_definition"}

\* the ledger's transaction for a schema registered under sequence number n
SchemaTxn(schema, n) ==
    [kind |-> "schema", id |-> make_schema_id(schema),
     obj |-> indy_schema(make_schema_id(schema), schema), seqNo |-> n]

\* the ledger's transaction for a credential definition of a schema on the ledger
CredDefTxn(schema_txn, type, tag, value, n) ==
    LET schema == SchemaResultOf(LedgerSchema(schema_txn))
        cred_def == [issuer_id |-> <<"i">>, schema_id |-> schema.schema_id,
                     type |-> type, tag |-> tag, value |-> value]
        cred_def_id == make_cred_def_id(schema, cred_def).id
    IN  [kind |-> "cred_def", id |-> cred_def_id,
         obj |-> indy_cred_def(cred_def_id, schema, cred_def), seqNo |-> n]

\* ledgers left by earlier registrations: nothing, a schema, a schema and a
\* credential definition for it
Ledgers ==
    {<<>>}
    \cup {<<SchemaTxn(s, GenesisSize + 1)>> : s \in Schemas}
    \cup {<<SchemaTxn(s, GenesisSize + 1),
            CredDefTxn(SchemaTxn(s, GenesisSize + 1), type, tag, value, GenesisSize + 2)>> :
              s \in Schemas, type \in SignatureTypes, tag \in Tags, value \in CredDefValues}

InitRes ==
    /\ ledgerRevoked = {}
    /\ ledgerAccum = 1
    /\ ledgerSeqNo = 0
    /\ walletRecs = [i \in Indices |-> STATE_ISSUED]
    /\ InitCall
    /\ InitCancelIdle
    /\ chain \in Ledgers
    /\ credDefInWallet = {}
    /\ tails_base_url = NoneVal
    /\ reg = IdleReg
    /\ resolved = NoneObj
    /\ kept = NoKept
    /\ InitConcIdle
    /\ schemas = <<>>
    /\ schema_ids = <<>>

\* the caller takes the outcome of the call and keeps what a resolution returned
CallerKeeps ==
    /\ reg.pc = "done"
    /\ reg' = IdleReg
    /\ kept' = IF reg.op \in ResolutionOps /\ reg.result # NoneObj
               THEN [op |-> reg.op, id |-> reg.id, result |-> reg.result, len |-> Len(chain)]
               ELSE kept
    /\ UNCHANGED <<chain, credDefInWallet, tails_base_url, resolved>>
    /\ UNCHANGED <<reconVars, cancelVars, idVars, concVars>>

NextRes ==
    \/ CallGetSchema
    \/ GetSchemaNoLedger
    \/ GetSchemaFound
    \/ GetSchemaNotFound
    \/ GetSchemaLedgerError
    \/ CallGetCredDef
    \/ GetCredDefNoLedger
    \/ GetCredDefFound
    \/ GetCredDefNotFound
    \/ GetCredDefLedgerError
    \/ CallRegisterSchema
    \/ SchemaNoLedger
    \/ SchemaInject
    \/ SchemaSendOk
    \/ SchemaSendExists
    \/ SchemaSendError
    \/ SchemaReturn
    \/ CallerKeeps

SpecRes == InitRes /\ [][NextRes]_vars

\* ------------------------------------------------------------------------
\* Concurrent reconciliations: fix_ledger_entry calls with apply_ledger_update
\* true that run for the same registry on a profile with a ledger, each on its
\* own frame, interleaved at their awaits (lines 504, 515, 548, 565).
\* ------------------------------------------------------------------------
callVars == <<pc, op, calls, apply_ledger_update, current_accumulator, ledger, err,
              rev_reg_delta, revoked_ids, rec_count, accum_count, recovery_txn,
              applied_txn, rev_entry_res, ret, openSessions, sent, fixCalls, pre>>

\* what none of the concurrent calls' steps touches
ConcFrame ==
    /\ UNCHANGED <<callVars, walletRecs, healed, kept>>
    /\ UNCHANGED <<cancelVars, regVars, idVars>>

\* lines 493-503: the call starts and enters the ledger session
ConcCall(f) ==
    /\ fixer[f].pc = "idle"
    /\ fixer' = [fixer EXCEPT ![f].pc = "fix_delta"]
    /\ UNCHANGED <<ledgerVars, submitted>>
    /\ ConcFrame

\* lines 504-506
ConcReadDelta(f) ==
    /\ fixer[f].pc = "fix_delta"
    /\ fixer' = [fixer EXCEPT ![f].rev_reg_delta = get_revoc_reg_delta,
                              ![f].pc = "fix_scan"]
    /\ UNCHANGED <<ledgerVars, submitted>>
    /\ ConcFrame

\* lines 503-506: the read fails and the error propagates
ConcReadDeltaError(f) ==
    /\ fixer[f].pc = "fix_delta"
    /\ fixer' = [fixer EXCEPT ![f].raised = "LedgerError", ![f].pc = "done"]
    /\ UNCHANGED <<ledgerVars, submitted>>
    /\ ConcFrame

\* lines 509-534
ConcScanWallet(f) ==
    /\ fixer[f].pc = "fix_scan"
    /\ LET r == ScanRecs(query_by_ids, fixer[f].rev_reg_delta, 1, <<>>, 0)
       IN  fixer' = [fixer EXCEPT ![f].revoked_ids = r.revoked_ids,
                                  ![f].rec_count = r.rec_count,
                                  ![f].pc = "fix_check"]
    /\ UNCHANGED <<ledgerVars, submitted>>
    /\ ConcFrame

\* line 537, false branch
ConcNoDiscrepancy(f) ==
    /\ fixer[f].pc = "fix_check"
    /\ ~HasDiscrepancy(fixer[f].rec_count)
    /\ fixer' = [fixer EXCEPT ![f].pc = "fix_return"]
    /\ UNCHANGED <<ledgerVars, submitted>>
    /\ ConcFrame

\* lines 537-564: the corrective transaction is computed from the ledger as it
\* is now, and the session for the write is entered
ConcGenerate(f) ==
    /\ fixer[f].pc = "fix_check"
    /\ HasDiscrepancy(fixer[f].rec_count)
    /\ fixer' = [fixer EXCEPT
                   ![f].recovery_txn = generate_ledger_rrrecovery_txn(
                                           fixer[f].revoked_ids, ledgerRevoked, ledgerAccum),
                   ![f].pc = "fix_send"]
    /\ UNCHANGED <<ledgerVars, submitted>>
    /\ ConcFrame

\* lines 565-569: the ledger takes the corrective entry
ConcSendOk(f) ==
    /\ fixer[f].pc = "fix_send"
    /\ LET txn == fixer[f].recovery_txn
       IN  /\ submitted' = Append(submitted, [by |-> f, revoked |-> txn.revoked,
                                              onLedger |-> ledgerRevoked])
           /\ ledgerRevoked' = ledgerRevoked \cup txn.revoked
           /\ ledgerAccum' = txn.accum
           /\ ledgerSeqNo' = ledgerSeqNo + 1
           /\ fixer' = [fixer EXCEPT ![f].applied_txn = [txn EXCEPT !.seqNo = ledgerSeqNo + 1],
                                     ![f].pc = "fix_return"]
    /\ ConcFrame

\* lines 564-567: the ledger rejects the corrective entry, or the transport fails
ConcSendError(f) ==
    /\ fixer[f].pc = "fix_send"
    /\ submitted' = Append(submitted, [by |-> f, revoked |-> fixer[f].recovery_txn.revoked,
                                       onLedger |-> ledgerRevoked])
    /\ fixer' = [fixer EXCEPT ![f].raised = "LedgerError", ![f].pc = "done"]
    /\ UNCHANGED ledgerVars
    /\ ConcFrame

\* line 571
ConcReturn(f) ==
    /\ fixer[f].pc = "fix_return"
    /\ fixer' = [fixer EXCEPT ![f].pc = "done"]
    /\ UNCHANGED <<ledgerVars, submitted>>
    /\ ConcFrame

NextConc ==
    \E f \in Fixers :
        \/ ConcCall(f)
        \/ ConcReadDelta(f)
        \/ ConcReadDeltaError(f)
        \/ ConcScanWallet(f)
        \/ ConcNoDiscrepancy(f)
        \/ ConcGenerate(f)
        \/ ConcSendOk(f)
        \/ ConcSendError(f)
        \/ ConcReturn(f)

SpecConc == Init /\ [][NextConc]_vars

\* ========================================================================
\* Properties
\* ========================================================================
\* fix_ledger_entry has returned its tuple (to its caller, or into
\* register_revocation_status_list which has not yet unpacked it)
FixReturned == ret.kind = "return" /\ ret.what = "tuple"

\* the locally revoked indices the delta read by the call does not hold
Missed == WalletRevoked \ rev_reg_delta.revoked

LedgerUntouched ==
    /\ ledgerRevoked = pre.revoked
    /\ ledgerAccum = pre.accum
    /\ ledgerSeqNo = pre.seqNo

SentBy(by) == {n \in 1..Len(sent) : sent[n].by = by}

InStatusCall == op = "register_revocation_status_list"

TaaRollUp == <<"Ledger rejected transaction request", "InvalidClientTaaAcceptanceError">>
RepairRollUp == <<"Ledger rejected transaction request", "InvalidClientRequest">>
UnknownRollUp == <<"Ledger rejected transaction request", "UnauthorizedClientRequest">>

\* C1 -- Reconciliation no-op: when every locally revoked index is in the ledger
\* delta's revoked set, fix_ledger_entry returns the ledger delta with an empty
\* corrective and an empty applied transaction and has submitted no ledger write,
\* also with apply=true.
C1_ReconcileNoOp ==
    (FixReturned /\ WalletRevoked \subseteq ret.delta.revoked) =>
        /\ ret.delta.read
        /\ ret.delta.revoked = ledgerRevoked
        /\ ret.delta.accum = ledgerAccum
        /\ ret.recovery = EmptyTxn
        /\ ret.applied = EmptyTxn
        /\ SentBy("fix_ledger_entry") = {}
        /\ LedgerUntouched

C1_Witness ==
    /\ FixReturned
    /\ apply_ledger_update
    /\ WalletRevoked # {}
    /\ WalletRevoked \subseteq ret.delta.revoked
    /\ WalletRevoked # ret.delta.revoked

\* C2 (as claimed) -- the set of indices handed to the corrective-transaction
\* computation equals (wallet-revoked indices) minus (ledger-delta revoked indices).
C2_HandsOverMissedOnly ==
    pc = "fix_apply" => SeqToSet(revoked_ids) = WalletRevoked \ rev_reg_delta.revoked

\* C2 (amended) -- whenever at least one locally revoked index is absent from the
\* ledger delta, the corrective-transaction computation is invoked and is handed
\* the whole set of locally revoked indices, each once, the already published
\* ones included; the missed indices are the part of it the delta does not hold,
\* and rec_count is their number.
C2_HandsOverAllRevoked ==
    /\ pc = "fix_apply" =>
        /\ SeqToSet(revoked_ids) = WalletRevoked
        /\ Len(revoked_ids) = Cardinality(WalletRevoked)
        /\ Missed # {}
        /\ Missed \subseteq SeqToSet(revoked_ids)
        /\ rec_count = Cardinality(Missed)
        /\ ~recovery_txn.empty
    /\ (pc = "fix_return" /\ Missed # {}) =>
        /\ ~recovery_txn.empty
        /\ SeqToSet(revoked_ids) = WalletRevoked
    /\ (pc = "fix_return" /\ Missed = {}) => recovery_txn.empty

C2_Witness ==
    /\ pc = "fix_apply"
    /\ Missed # {}
    /\ WalletRevoked \cap rev_reg_delta.revoked # {}

\* C3 -- Reconciliation repair heals the ledger: after fix_ledger_entry with
\* apply=true has returned in a state with missed publications, the ledger's
\* revoked set is the union of its previous revoked set and the wallet's revoked
\* set, written by one corrective entry of type CL_ACCUM.
C3_RepairHealsLedger ==
    (FixReturned /\ apply_ledger_update /\ WalletRevoked \ ret.delta.revoked # {}) =>
        /\ ledgerRevoked = pre.revoked \cup WalletRevoked
        /\ WalletRevoked \subseteq ledgerRevoked
        /\ Cardinality(SentBy("fix_ledger_entry")) = 1
        /\ \A n \in SentBy("fix_ledger_entry") :
               /\ sent[n].type = "CL_ACCUM"
               /\ sent[n].revoked = WalletRevoked \ pre.revoked
        /\ ~ret.applied.empty

C3_Witness ==
    /\ FixReturned
    /\ apply_ledger_update
    /\ WalletRevoked \ pre.revoked # {}
    /\ WalletRevoked \cap pre.revoked # {}
    /\ ledgerRevoked # Indices
    /\ ledgerRevoked = pre.revoked \cup WalletRevoked

\* C4 -- Dry run: a fix_ledger_entry call with apply=false leaves the ledger as it
\* was and submits nothing; the applied transaction it returns is empty, and when
\* missed publications exist it returns the computed corrective transaction.
C4_DryRun ==
    (op = "fix_ledger_entry" /\ ~apply_ledger_update) =>
        /\ LedgerUntouched
        /\ sent = <<>>
        /\ FixReturned =>
            /\ ret.applied = EmptyTxn
            /\ (WalletRevoked \ ret.delta.revoked # {}) =>
                /\ ~ret.recovery.empty
                /\ ret.recovery = recovery_txn
                /\ ret.recovery.revoked = WalletRevoked \ ret.delta.revoked
            /\ (WalletRevoked \ ret.delta.revoked = {}) => ret.recovery = EmptyTxn

C4_Witness ==
    /\ op = "fix_ledger_entry"
    /\ ~apply_ledger_update
    /\ FixReturned
    /\ WalletRevoked \ ret.delta.revoked # {}
    /\ ~ret.recovery.empty

\* C5 -- Shielded submit: in every registration operation, a ledger write whose
\* caller was cancelled after the dispatch is never cancelled with it.
C5_WriteNeverCancelled ==
    \A a \in Attempts : callState[a] = "cancelled" => writeState[a] # "aborted"

\* C6 -- Cancellation safety on retry: when a registration is cancelled after its
\* write was dispatched and is then retried, the ledger holds at most one
\* transaction of that registration.
C6_NoDuplicateOnRetry == Len(objLog) <= 1

\* the outcomes with which the reconciliation itself fails
ReconcileErrors == {"InjectionError", "LedgerError", "LedgerError: No ledger available"}

\* C7 -- Retry-by-repair reports success: after an InvalidClientRequest rejection
\* the reconciliation runs with apply=true, and unless the reconciliation raises,
\* register_revocation_status_list returns a FINISHED result that carries the
\* sequence number of the corrective transaction.
C7_RepairReportsSuccess ==
    /\ (InStatusCall /\ err = RepairRollUp /\ pc \notin {"status_except", "done"}) =>
           (fixCalls = 1 /\ apply_ledger_update)
    /\ (InStatusCall /\ err = RepairRollUp /\ pc = "done" /\ ret.what \notin ReconcileErrors) =>
           /\ ret.kind = "return"
           /\ ret.what = "STATE_FINISHED"
           /\ ret.seqNo = ledgerSeqNo

\* C8 (as claimed) -- within one call of register_revocation_status_list the
\* reconciliation is invoked at most once and the original write is submitted
\* exactly once.
C8_WriteExactlyOnce ==
    (InStatusCall /\ pc = "done") =>
        /\ fixCalls <= 1
        /\ Cardinality(SentBy("register_revocation_status_list")) = 1

\* C8 (amended) -- within one call of register_revocation_status_list the
\* reconciliation is invoked at most once, the original write is submitted at
\* most once, and exactly once by every call that obtains a ledger; at most one
\* corrective write is submitted, and when it fails the call has ended with an
\* error.
C8_BoundedRepair ==
    InStatusCall =>
        /\ fixCalls <= 1
        /\ Cardinality(SentBy("register_revocation_status_list")) <= 1
        /\ Cardinality(SentBy("fix_ledger_entry")) <= fixCalls
        /\ (pc # "status_send" /\ ~(pc = "done" /\ ret.what = "InjectionError" /\ sent = <<>>)) =>
               /\ Len(sent) >= 1
               /\ sent[1].by = "register_revocation_status_list"
               /\ Cardinality(SentBy("register_revocation_status_list")) = 1
        /\ (SentBy("fix_ledger_entry") # {} /\ applied_txn.empty /\ pc # "fix_send") =>
               (pc = "done" /\ ret.kind = "raise")

C8_Witness ==
    /\ InStatusCall
    /\ pc = "done"
    /\ fixCalls = 1
    /\ SentBy("fix_ledger_entry") # {}
    /\ applied_txn.empty
    /\ ret.kind = "raise"

\* C9 -- TAA rejection is fatal: after an InvalidClientTaaAcceptanceError rejection
\* register_revocation_status_list raises a registration error, without invoking
\* the reconciliation and without a further ledger write.
C9_TaaIsFatal ==
    (InStatusCall /\ err = TaaRollUp) =>
        /\ pc \in {"status_except", "done"}
        /\ fixCalls = 0
        /\ Len(sent) = 1
        /\ LedgerUntouched
        /\ pc = "done" =>
            /\ ret.kind = "raise"
            /\ ret.what = "AnonCredsRegistrationError: Ledger update failed due to TAA Issue"

C9_Witness ==
    /\ InStatusCall
    /\ err = TaaRollUp
    /\ pc = "done"
    /\ ret.kind = "raise"

\* C10 -- Unknown rejection is fatal: after a rejection that is neither
\* InvalidClientRequest nor InvalidClientTaaAcceptanceError the call raises the
\* unknown-cause registration error without invoking the reconciliation; a
\* FINISHED result is returned only if the original write succeeded or a repair
\* was applied.
C10_UnknownIsFatal ==
    /\ (InStatusCall /\ err = UnknownRollUp) =>
        /\ pc \in {"status_except", "done"}
        /\ fixCalls = 0
        /\ Len(sent) = 1
        /\ LedgerUntouched
        /\ pc = "done" =>
            /\ ret.kind = "raise"
            /\ ret.what = "AnonCredsRegistrationError: Ledger update failed due to unknown issue"
    /\ (InStatusCall /\ pc = "done" /\ ret.what = "STATE_FINISHED") =>
        \/ /\ err = NoErr
           /\ fixCalls = 0
           /\ ledgerSeqNo = pre.seqNo + 1
           /\ ret.seqNo = ledgerSeqNo
           /\ ledgerAccum = current_accumulator
        \/ /\ err = RepairRollUp
           /\ fixCalls = 1
           /\ ~applied_txn.empty
           /\ ret.seqNo = applied_txn.seqNo

C10_Witness ==
    /\ InStatusCall
    /\ err = UnknownRollUp
    /\ pc = "done"
    /\ ret.kind = "raise"

\* ========================================================================
\* Properties of the registrar
\* ========================================================================
RegistrationOps == {"register_schema", "register_credential_definition",
                    "register_revocation_registry_definition"}

AlreadyExistsErrors == {"AnonCredsSchemaAlreadyExists", "AnonCredsObjectAlreadyExists"}

\* the call has ended
RegDone == reg.pc = "done"

\* a registration has ended after the ledger answered object-already-exists
Conflict == RegDone /\ reg.op \in RegistrationOps /\ reg.answer = "exists"

\* a registration has returned its result
Registered == RegDone /\ reg.op \in RegistrationOps /\ reg.exc = NoExc

\* C11: whenever the ledger answers a registration, of any artifact kind, with
\* object-already-exists, the error raised is an AlreadyExists error that carries
\* the identifier and the artifact rebuilt from the ledger's copy.
C11_ConflictCarriesExisting ==
    Conflict =>
        /\ reg.exc.type \in AlreadyExistsErrors
        /\ reg.exc.obj # NoneObj
        /\ reg.exc.obj.id = reg.existing.id
        /\ reg.op = "register_schema" =>
               /\ reg.exc.obj.artifact.name = reg.existing.obj.name
               /\ reg.exc.obj.artifact.version = reg.existing.obj.version
               /\ reg.exc.obj.artifact.attr_names = reg.existing.obj.attrNames

\* C12: an object-already-exists answer of the ledger always ends the
\* registration with an AlreadyExists error: never with a result, never with a
\* generic registration error.
C12_ExistsRaisesAlreadyExists ==
    Conflict => reg.exc.type \in AlreadyExistsErrors /\ reg.result = NoneObj

\* C13: every registration that returns has state finished, no job id, and in
\* its metadata the sequence number the ledger gave to the write, whatever the
\* caller's options hold.
C13_ResultCarriesLedgerSeqNo ==
    Registered =>
        /\ reg.result.state = "finished"
        /\ reg.result.job_id = NoneVal
        /\ reg.result.metadata["seqNo"] = reg.assigned
        /\ chain[Len(chain)].id = reg.id
        /\ chain[Len(chain)].seqNo = reg.assigned

InCredDef == reg.op = "register_credential_definition"

InRevRegDef == reg.op = "register_revocation_registry_definition"

\* the wallet holds the identifier and the ledger has just answered not-found
ContradictionFound ==
    /\ At("register_credential_definition", "resolve")
    /\ reg.id \in credDefInWallet
    /\ reg'.steps = reg.steps \o <<"session", "read", "not_found">>

\* C14: in register_credential_definition, when the wallet holds the derived
\* identifier and the ledger resolves it to not-found, the call ends with a
\* registration error that names the contradiction; no write is submitted, and
\* neither the ledger nor the wallet changes.
C14_ContradictionIsFatal ==
    [][ContradictionFound =>
           /\ reg'.pc = "done"
           /\ reg'.exc.type = "AnonCredsRegistrationError"
           /\ reg'.exc.message = "already exists in wallet but not on the ledger"
           /\ \A n \in 1..Len(reg'.steps) : reg'.steps[n] # "send"
           /\ chain' = chain
           /\ credDefInWallet' = credDefInWallet]_vars

C14_Witness ==
    /\ InCredDef
    /\ RegDone
    /\ Did("not_found")
    /\ reg.id \in credDefInWallet
    /\ reg.exc.message = "already exists in wallet but not on the ledger"

\* C15: register_revocation_registry_definition with the tails base URL absent
\* or empty ends with a registration error as its first step: no ledger session,
\* no ledger call, and the supplied definition is as the caller passed it.
C15_TailsBaseIsMandatory ==
    [][(At("register_revocation_registry_definition", "start")
        /\ tails_base_url \in {NoneVal, <<>>}
        /\ reg' # reg) =>
           /\ reg'.pc = "done"
           /\ reg'.exc.type = "AnonCredsRegistrationError"
           /\ reg'.exc.message = "tails_server_base_url not configured"
           /\ reg'.steps = <<>>
           /\ reg'.arg = reg.arg
           /\ chain' = chain]_vars

C15_Witness ==
    /\ InRevRegDef
    /\ RegDone
    /\ tails_base_url = <<>>
    /\ reg.exc.message = "tails_server_base_url not configured"
    /\ reg.arg.value.tails_location = <<"x">>

\* location is base, without the slashes it ends with, then one '/', then id
JoinedByOneSlash(base, id, location) ==
    \E n \in 0..Len(base) :
        /\ n > 0 => base[n] # "/"
        /\ \A k \in (n + 1)..Len(base) : base[k] = "/"
        /\ location = SubSeq(base, 1, n) \o <<"/">> \o id

\* C16: the tails_location submitted to the ledger, kept by the ledger and
\* returned in the result is the non-empty base URL joined to the derived
\* identifier by exactly one '/', whatever tails_location the caller supplied.
C16_TailsLocationIsComputed ==
    /\ (InRevRegDef /\ Did("send")) =>
           /\ reg.id = make_rev_reg_def_id(reg.arg)
           /\ JoinedByOneSlash(tails_base_url, reg.id, reg.wire.value.tailsLocation)
    /\ (InRevRegDef /\ Registered) =>
           /\ JoinedByOneSlash(tails_base_url, reg.id,
                               reg.result.artifact.value.tails_location)
           /\ JoinedByOneSlash(tails_base_url, reg.id,
                               Existing("rev_reg_def", reg.id).obj.value.tailsLocation)

C16_Witness ==
    /\ InRevRegDef
    /\ Registered
    /\ tails_base_url = <<"h", ":", "/", "/", "t", "/", "/">>
    /\ reg.result.artifact.value.tails_location
           = <<"h", ":", "/", "/", "t", "/">> \o reg.id

\* C17: when the computed tails_location lacks a scheme, a host or a path, the
\* call ends with the registrar's registration error and no write is submitted.
C17_MalformedUrlIsRegistrationError ==
    (InRevRegDef /\ RegDone /\ Did("mutate")
     /\ ~check_url_ok(reg.arg.value.tails_location)) =>
        /\ reg.exc.type = "AnonCredsRegistrationError"
        /\ ~Did("send")

\* C18: register_credential_definition for a schema whose metadata holds no
\* sequence number ends with the registration error of make_cred_def_id before
\* the wallet is asked, the ledger read or anything written.
C18_MissingSeqNoFailsFirst ==
    (InCredDef /\ reg.pc # "start" /\ "seqNo" \notin DOMAIN reg.schema.schema_metadata) =>
        /\ RegDone
        /\ reg.exc.type = "AnonCredsRegistrationError"
        /\ reg.exc.message = "Legacy Indy only supports schemas from Legacy Indy"
        /\ reg.steps = <<>>
        /\ reg.result = NoneObj

C18_Witness ==
    /\ InCredDef
    /\ RegDone
    /\ reg.schema = ForeignSchemaResult
    /\ reg.exc.message = "Legacy Indy only supports schemas from Legacy Indy"

\* C19: make_schema_id gives two schemas of equal issuer_id, name and version
\* the same identifier, and two schemas that differ in name or in version
\* different identifiers, for strings that may hold ':'.
C19_SchemaIdsDistinct ==
    schema_ids # <<>> =>
        /\ (/\ schemas[1].issuer_id = schemas[2].issuer_id
            /\ schemas[1].name = schemas[2].name
            /\ schemas[1].version = schemas[2].version) => schema_ids[1] = schema_ids[2]
        /\ (\/ schemas[1].name # schemas[2].name
            \/ schemas[1].version # schemas[2].version) => schema_ids[1] # schema_ids[2]

\* the identifier a credential definition is to get for the sequence number of
\* its schema
ExpectedCredDefId(cred_def, seqNo) ==
    cred_def.issuer_id \o <<":", "3", ":">>
    \o (IF cred_def.type \in {NoneVal, <<>>} THEN <<"C", "L">> ELSE cred_def.type)
    \o <<":">> \o str(seqNo) \o <<":">>
    \o (IF cred_def.tag \in {NoneVal, <<>>} THEN <<"d", "e", "f", "a", "u", "l", "t">>
        ELSE cred_def.tag)

\* C20: a credential definition registered for a schema that was registered and
\* then resolved gets the identifier issuer_id:3:<type, CL when unset>:<sequence
\* number the ledger gave the schema>:<tag, default when unset>, and that
\* sequence number is the one the resolution returned.
C20_CredDefIdFromResolvedSchema ==
    (InCredDef /\ Registered) =>
        LET txn == Existing("schema", reg.schema.schema_id)
        IN  /\ OnChain("schema", reg.schema.schema_id) # {}
            /\ reg.schema.schema_metadata["seqNo"] = txn.seqNo
            /\ int(str(txn.seqNo)) = txn.seqNo
            /\ reg.result.id = ExpectedCredDefId(reg.arg, txn.seqNo)
            /\ Existing("cred_def", reg.result.id).obj.id = reg.result.id

C20_Witness ==
    /\ InCredDef
    /\ Registered
    /\ reg.schema = resolved
    /\ reg.arg.type = NoneVal
    /\ reg.arg.tag = <<>>
    /\ reg.result.id = <<"i", ":", "3", ":", "C", "L", ":">>
                       \o str(chain[1].seqNo) \o <<":", "d", "e", "f", "a", "u", "l", "t">>


\* ------------------------------------------------------------- resolution
\* the artifact kind a resolution reads
ResolvedKind == IF reg.op = "get_schema" THEN "schema" ELSE "cred_def"

\* a resolution has ended
Resolving == RegDone /\ reg.op \in ResolutionOps

\* C21 -- Not-found is distinct: get_schema and get_credential_definition fail
\* with AnonCredsObjectNotFound when the ledger was read and holds no object
\* under the identifier, and a failed ledger read is never reported as
\* AnonCredsObjectNotFound.
C21_NotFoundIsDistinct ==
    /\ (Resolving /\ Did("read") /\ reg.answer # "error"
          /\ OnChain(ResolvedKind, reg.id) = {}) =>
           /\ reg.exc.type = "AnonCredsObjectNotFound"
           /\ reg.result = NoneObj
    /\ (Resolving /\ reg.answer = "error") => reg.exc.type # "AnonCredsObjectNotFound"

C21_Witness ==
    /\ Resolving /\ reg.op = "get_credential_definition"
    /\ Did("read") /\ OnChain("cred_def", reg.id) = {}
    /\ reg.exc.type = "AnonCredsObjectNotFound"
    /\ KindOnChain("schema") # {}

\* C22 -- Resolution failures are wrapped: for get_schema and for
\* get_credential_definition a ledger-layer failure during the read reaches the
\* caller as AnonCredsResolutionError, never as the ledger client's own error.
C22_ReadFailureIsResolutionError ==
    (Resolving /\ reg.answer = "error") => reg.exc.type = "AnonCredsResolutionError"

\* C23 -- No ledger for resolution: when the selector returns no ledger for the
\* identifier, get_schema and get_credential_definition fail with the no-ledger
\* AnonCredsResolutionError, and no ledger session was opened and nothing read.
C23_NoLedgerNoRead ==
    (Resolving /\ reg.answer = "no_ledger") =>
        /\ reg.exc.type = "AnonCredsResolutionError"
        /\ reg.exc.message = "No ledger available"
        /\ reg.result = NoneObj
        /\ reg.steps = <<>>

C23_Witness ==
    /\ Resolving /\ reg.op = "get_credential_definition" /\ reg.answer = "no_ledger"
    /\ reg.exc.type = "AnonCredsResolutionError"
    /\ OnChain("cred_def", reg.id) # {}

\* a resolution returns what the caller kept from resolving the same identifier,
\* and the ledger was not written in between
ResolvedAgain ==
    /\ Resolving /\ reg.result # NoneObj
    /\ kept.op = reg.op /\ kept.id = reg.id /\ kept.len = Len(chain)

CallEnded == pc = "done" \/ ret.kind \in {"return", "raise"}

C26_NoNativeLedgerError ==
    (pc = "done" /\ ret.kind = "raise") => ret.what # "LedgerError"

\* the indices the wallet holds revoked and the ledger did not when the call started
MissedAtStart == WalletRevoked \ pre.revoked

\* C27 -- Single corrective write: a call computes at most one corrective
\* transaction and submits at most one corrective write; the ledger's revoked set
\* is either what it was when the call started or that set with every missed
\* index added by the one entry.
C27_SingleCorrectiveWrite ==
    /\ Cardinality(SentBy("fix_ledger_entry")) <= 1
    /\ fixCalls <= 1
    /\ \A n \in SentBy("fix_ledger_entry") :
           /\ sent[n].revoked = recovery_txn.revoked
           /\ sent[n].revoked = MissedAtStart
    /\ pc # "idle" =>
           \/ ledgerRevoked = pre.revoked
           \/ /\ ledgerRevoked = pre.revoked \cup MissedAtStart
              /\ Cardinality(SentBy("fix_ledger_entry")) = 1

C27_Witness ==
    /\ FixReturned
    /\ Cardinality(MissedAtStart) >= 2
    /\ Cardinality(SentBy("fix_ledger_entry")) = 1
    /\ ledgerRevoked = pre.revoked \cup MissedAtStart
    /\ ledgerRevoked # pre.revoked

\* fix_ledger_entry found no ledger at the apply step
ApplyWithoutLedger == CallEnded /\ ledger = "none" /\ ~recovery_txn.empty

\* C28 -- Apply without ledger: when no ledger is available at the apply step,
\* fix_ledger_entry fails with the LedgerError that names the missing ledger and
\* no corrective write is made; that error is raised only when apply is true and
\* missed publications exist.
C28_ApplyWithoutLedger ==
    /\ ApplyWithoutLedger =>
           /\ ret.kind = "raise"
           /\ ret.what = "LedgerError: No ledger available"
           /\ SentBy("fix_ledger_entry") = {}
           /\ ledgerRevoked = pre.revoked /\ ledgerAccum = pre.accum
    /\ (ret.kind = "raise" /\ ret.what = "LedgerError: No ledger available") =>
           /\ apply_ledger_update
           /\ Missed # {}
           /\ ledger = "none"

C28_Witness ==
    /\ ApplyWithoutLedger
    /\ op = "fix_ledger_entry"
    /\ ret.what = "LedgerError: No ledger available"
    /\ apply_ledger_update /\ Missed # {}
    /\ sent = <<>>

\* what a returning fix_ledger_entry computes, applies and leaves on the ledger,
\* from the ledger and wallet at the start of the call and apply_ledger_update
ExpectedRecovery ==
    IF MissedAtStart = {} THEN EmptyTxn
    ELSE [empty |-> FALSE, revoked |-> MissedAtStart,
          accum |-> NewAccum(pre.accum), seqNo |-> 0]

ExpectedApplied ==
    IF MissedAtStart = {} \/ ~apply_ledger_update THEN EmptyTxn
    ELSE [ExpectedRecovery EXCEPT !.seqNo = pre.seqNo + 1]

ExpectedLedger ==
    IF ExpectedApplied.empty THEN pre
    ELSE [revoked |-> pre.revoked \cup MissedAtStart,
          accum |-> ExpectedRecovery.accum, seqNo |-> pre.seqNo + 1]

\* C29 -- Accumulator mismatch is detect-only: the corrective transaction, the
\* applied transaction and the resulting ledger state of a returning
\* fix_ledger_entry are determined by the ledger, the wallet's revocation records
\* and apply_ledger_update; the current accumulator the wallet recorded has no
\* part in them, so two runs that differ only in it agree on all three.
C29_AccumulatorDetectOnly ==
    FixReturned =>
        /\ ret.recovery = ExpectedRecovery
        /\ ret.applied = ExpectedApplied
        /\ [revoked |-> ledgerRevoked, accum |-> ledgerAccum, seqNo |-> ledgerSeqNo]
               = ExpectedLedger
        /\ accum_count = IF MissedAtStart # {} /\ current_accumulator # NoAccum
                            /\ current_accumulator # pre.accum
                         THEN 1 ELSE 0

C29_Witness ==
    /\ FixReturned /\ op = "fix_ledger_entry"
    /\ accum_count = 1
    /\ current_accumulator # pre.accum
    /\ ~ret.applied.empty
    /\ ledgerAccum = ret.recovery.accum

\* C30 -- Every ledger call is scoped: each step in which a call of the registry
\* submits a write to the ledger or reads the registry's delta is taken while a
\* ledger session acquired by that call is open.
C30_LedgerCallsInSession ==
    [][(Len(sent') > Len(sent) \/ (rev_reg_delta'.read /\ ~rev_reg_delta.read))
          => openSessions > 0]_vars


\* ------------------------------------------- credential definition, the steps
\* position of the first occurrence of a step in the trace of the call, 0 if none
StepIndex(step) ==
    IF Did(step) THEN CHOOSE n \in 1..Len(reg.steps) :
                          /\ reg.steps[n] = step
                          /\ \A k \in 1..(n - 1) : reg.steps[k] # step
    ELSE 0

\* C31 -- Strict step order in register_credential_definition: the identifier is
\* derived from the schema's sequence number before anything else is done, the
\* wallet (and, when the wallet holds the identifier, the ledger) is consulted
\* next, and the submission comes last and carries the derived identifier.
C31_CredDefStepOrder ==
    /\ (InCredDef /\ reg.pc = "start") => reg.steps = <<>>
    /\ (InCredDef /\ reg.steps # <<>>) =>
           /\ reg.steps[1] = "wallet_lookup"
           /\ reg.id = ExpectedCredDefId(reg.arg, reg.schema.schema_metadata["seqNo"])
    /\ (InCredDef /\ Did("send")) =>
           /\ StepIndex("wallet_lookup") < StepIndex("send")
           /\ Did("read") => (Did("found") /\ StepIndex("found") < StepIndex("send"))
           /\ ~Did("not_found")
           /\ reg.wire.id = reg.id
           /\ reg.answer = "ok" => Existing("cred_def", reg.id).obj.id = reg.id

C31_Witness ==
    /\ InCredDef /\ RegDone
    /\ reg.steps = <<"wallet_lookup", "session", "read", "found",
                     "session", "send", "wallet_lookup">>
    /\ reg.wire.id = reg.id

\* the value a field of the wire object is to have: the default when unset
WireDefault(s, default) == IF s \in {NoneVal, <<>>} THEN default ELSE s

\* C32 -- Defaults reach the wire object: the type and tag of the wire object
\* submitted for a credential definition are the signature type and tag of the
\* derived identifier, "CL" and "default" when the definition leaves them unset.
C32_DefaultsReachWire ==
    (InCredDef /\ Did("send")) =>
        /\ reg.wire.type = WireDefault(reg.arg.type, <<"C", "L">>)
        /\ reg.wire.tag = WireDefault(reg.arg.tag, <<"d", "e", "f", "a", "u", "l", "t">>)


\* ------------------------------------------------------- status-list entry
\* register_revocation_status_list has returned its result
StatusListRegistered == InStatusCall /\ pc = "done" /\ ret.kind = "return"

C36_ReconciliationConverges ==
    (healed /\ op = "fix_ledger_entry") =>
        /\ rec_count = 0
        /\ sent = <<>>
        /\ LedgerUntouched
        /\ pc \notin {"fix_apply", "fix_send"}
        /\ FixReturned => (ret.recovery = EmptyTxn /\ ret.applied = EmptyTxn)

C36_Witness ==
    /\ healed /\ op = "fix_ledger_entry" /\ FixReturned
    /\ apply_ledger_update
    /\ WalletRevoked # {}
    /\ ledgerSeqNo > 0
    /\ ret.recovery = EmptyTxn

\* fix_ledger_entry is running, called directly or by the repair
InFix == pc \in {"fix_inject", "fix_delta", "fix_scan", "fix_check", "fix_apply",
                 "fix_send", "fix_return"}

\* C37 -- Reconciliation is read-only on the wallet: no step of fix_ledger_entry,
\* with apply true or false, with or without missed publications or an
\* accumulator mismatch, changes a local revocation record or the accumulator
\* the wallet recorded; only the ledger changes.
C37_WalletReadOnly ==
    [][InFix => (walletRecs' = walletRecs /\ current_accumulator' = current_accumulator)]_vars

C37_Witness ==
    /\ FixReturned /\ apply_ledger_update
    /\ accum_count = 1
    /\ ~ret.applied.empty
    /\ ledgerRevoked # pre.revoked
    /\ WalletRevoked = {1, 2}
    /\ current_accumulator # pre.accum


\* C38 -- Empty ledger delta: when the delta the ledger returns for the registry
\* records no revoked index, with the revoked set empty or absent, every locally
\* revoked record is counted as a missed publication and the corrective
\* transaction holds all of them; the scan does not fail.
C38_EmptyDeltaAllMissed ==
    (rev_reg_delta.read /\ rev_reg_delta.revoked = {} /\ WalletRevoked # {}
       /\ pc \notin {"fix_scan", "idle"}) =>
        /\ ret.what # "KeyError: 'revoked'"
        /\ rec_count = Cardinality(WalletRevoked)
        /\ pc # "fix_check" => recovery_txn.revoked = WalletRevoked


\* ------------------------------------------------- cancellation and sessions
\* C35 -- Session outlives its write: a ledger write dispatched inside a ledger
\* session is in flight only while that session is open, also after the caller
\* of a shielded schema or credential definition write was cancelled.
C35_SessionOutlivesWrite ==
    \A a \in Attempts :
        (UsesSession(kind) /\ writeState[a] = "inflight") => session[a]

\* -------------------------------------------------- registration, no ledger
\* C39 -- No ledger for registration: a registration operation called on a
\* profile with no ledger ends with an AnonCredsRegistrationError and has
\* submitted nothing.
C39_NoLedgerIsRegistrationError ==
    (RegDone /\ reg.op \in RegistrationOps /\ reg.answer = "no_ledger") =>
        /\ reg.exc.type = "AnonCredsRegistrationError"
        /\ ~Did("send")


\* ------------------------------------------------ concurrent reconciliations
\* every concurrent call has returned
AllFixersReturned == \A f \in Fixers : fixer[f].pc = "done" /\ fixer[f].raised = ""

\* C34 -- Concurrent reconciliations never over-publish: no corrective
\* transaction submitted by concurrently running fix_ledger_entry calls holds an
\* index that is in the ledger's revoked set when it is submitted, and when all
\* of them have returned the ledger's revoked set is its initial set joined
\* with the wallet's revoked set.
C34_NoOverPublish ==
    /\ \A n \in 1..Len(submitted) : submitted[n].revoked \cap submitted[n].onLedger = {}
    /\ AllFixersReturned => ledgerRevoked = pre.revoked \cup WalletRevoked

====
